---------------------------- MODULE Spec2Model ----------------------------
(***************************************************************************)
(* A model of the numerical core of aiida-epw: the derived-quantity        *)
(* calculators (tools/calculators.py, workflows/supercon.py calculate_tc)  *)
(* and the text parsers (tools/parsers.py, parsers/epw.py).                *)
(*                                                                         *)
(* Numbers.  Floating-point values are modelled by exact rationals on a    *)
(* small decimal grid; the IEEE outcomes that are not numbers (NaN, +-inf, *)
(* a raised exception) are separate kinds of value.                        *)
(***************************************************************************)
EXTENDS Integers, Sequences, FiniteSets, TLC

VARIABLES
    \* ---- allen_dynes(lambo, omega_log, mu_star)
    lambo,               \* lambda, in hundredths
    mu_star,             \* mu*, in hundredths
    omega_log,           \* omega_log, in kelvin
    np_scalars,          \* TRUE: the arguments are numpy.float64, FALSE: Python floats
    ad_result,           \* what allen_dynes returned
    \* ---- the isotropic Tc calculators
    max_eigenvalue,      \* the (temperature, eigenvalue) table, rows in file order
    allow_extrapolation, \* the keyword argument of _calculate_iso_tc
    tc_result,           \* what _calculate_iso_tc returned
    iso_tc_node,         \* what the calcfunction calculate_iso_tc returned
    tc_node,             \* what supercon.calculate_tc returned
    \* ---- parse_epw_a2f
    file_content,        \* the text of the .a2f file: its lines, each a sequence of tokens
    a2f_result,          \* what parse_epw_a2f returned
    \* ---- parse_epw_max_eigenvalue and EpwParser.parse_stdout
    stdout,              \* the text of the stdout file: its lines
    me_result,           \* what parse_epw_max_eigenvalue returned
    ps_result,           \* what EpwParser.parse_stdout returned
    \* ---- parse_epw_imag_iso and parse_epw_imag_aniso_gap0
    file_contents,       \* the mapping filename -> content, in its iteration order
    prefix,              \* the keyword argument prefix: its characters
    iso_result,          \* what parse_epw_imag_iso returned
    aniso_result,        \* what parse_epw_imag_aniso_gap0 returned
    \* ---- gap_iso_imag_temp and gap_aniso_temp
    gap_functions,       \* the arrays of the input node as get_iterarrays yields them
    fit,                 \* the keyword argument fit
    p0,                  \* the keyword argument p0, <<>> for None
    iso_fit,             \* how gap_iso_imag_temp ended, with the p0 given to curve_fit
    aniso_fit,           \* how gap_aniso_temp ended, with the p0 given to curve_fit
    \* ---- calculate_lambda_omega
    frequency,           \* the frequency array, in meV
    spectrum,            \* the a2F values, in tenths
    lambda_omega,        \* what calculate_lambda_omega returned: <<lambda_, omega_log>>
    \* ---- parse_epw_bands and EpwParser.parse_bands
    bands_content,       \* the band-structure text: its k-point blocks
    kfpoints,            \* the input kfpoints of the calculation
    bands_parsed,        \* what parse_epw_bands returned
    bands_data,          \* what EpwParser.parse_bands returned
    \* ---- SuperConWorkChain
    sc_inputs,           \* the inputs of the work chain
    strict_predicates,   \* TRUE: the engine rejects a predicate that returns no bool
    sc_pc,               \* the step of the outline that runs next
    sc_ctx,              \* self.ctx
    sc_submitted,        \* the call link labels of the sub-processes submitted so far
    sc_exit,             \* the exit status, -1 while running, and the exception raised
    sc_outputs,          \* the labels of the outputs the work chain has emitted
    \* ---- EpwPrepWorkChain
    prep_inputs,         \* the inputs of the work chain
    prep_pc,             \* the step of the outline that runs next
    prep_ctx,            \* self.ctx: the exit status of each sub-process, -1 before it ran
    prep_submitted,      \* the call link labels of the sub-processes submitted so far
    prep_exit,           \* the exit status, -1 while running
    \* ---- validate_inputs of EpwBaseWorkChain
    base_inputs,         \* the names present in the input namespace
    validation,          \* what validate_inputs returned
    \* ---- check_kpoints_qpoints_compatibility
    ck_kpoints,          \* the argument kpoints: a mesh and its shift
    ck_qpoints,          \* the argument qpoints: a mesh and its shift
    compatibility,       \* what check_kpoints_qpoints_compatibility returned
    \* ---- EpwBaseWorkChain
    wc_inputs,           \* the inputs of the work chain and what their creators hold
    wc_pc,               \* the step of the outline that runs next
    wc_ctx,              \* self.ctx
    wc_reports,          \* what the process handler returned for each inspected calculation
    wc_exit              \* the exit status, -1 while running, and the exception raised

vars == <<lambo, mu_star, omega_log, np_scalars, ad_result,
          max_eigenvalue, allow_extrapolation, tc_result, iso_tc_node, tc_node,
          file_content, a2f_result, stdout, me_result, ps_result,
          file_contents, prefix, iso_result, aniso_result,
          gap_functions, fit, p0, iso_fit, aniso_fit,
          frequency, spectrum, lambda_omega,
          bands_content, kfpoints, bands_parsed, bands_data,
          sc_inputs, strict_predicates, sc_pc, sc_ctx, sc_submitted, sc_exit, sc_outputs,
          prep_inputs, prep_pc, prep_ctx, prep_submitted, prep_exit,
          base_inputs, validation,
          ck_kpoints, ck_qpoints, compatibility,
          wc_inputs, wc_pc, wc_ctx, wc_reports, wc_exit>>

-----------------------------------------------------------------------------
(* Bounds of the model.                                                    *)

MaxLambda == 14     \* lambda ranges over 0.00 .. 0.14
MaxMu == 13         \* mu* ranges over 0.00 .. 0.13
MaxOmega == 2       \* omega_log ranges over 1 .. 2 K
MaxRows == 3        \* rows of a max-eigenvalue table
MaxTemp == 3        \* temperatures 1 .. 3
EigBelow == 1       \* eigenvalues One-EigBelow .. One+EigAbove, in fifths
EigAbove == 3
MaxTableRows == 2   \* lines of an .a2f file before the marker line
MaxCols == 3        \* tokens of a line of numbers
MaxStdoutLines == 4 \* lines of a stdout text
MaxFiles == 2       \* entries of a filename mapping
MaxArrays == 3      \* arrays of a gap-function node
MaxPoints == 3      \* points of an a2F spectrum
MaxFrequency == 4   \* frequencies 1 .. 4 meV
MaxSpectrum == 2    \* a2F values 0.0 .. 0.2
MaxKpoints == 2     \* k-point blocks of a band-structure text, points of kfpoints
MaxBands == 2       \* energies of a k-point block
MaxDistances == 4   \* interpolation distances of a SuperConWorkChain
MaxAllenDynes == 2  \* Allen-Dynes Tc values 1 .. 2 K of an interpolation run
MaxExitStatus == 2  \* exit statuses 0 .. 2 of a sub-process of EpwPrepWorkChain
MaxMesh == 4        \* mesh dimensions 0 .. 4 of a KpointsData
MaxIterations == 2  \* max_iterations 1 .. 2 of an EpwBaseWorkChain

(* The eigenvalue 1.0 of calculators.py, in the unit of the table: fifths,  *)
(* so that 0.8, 1.0 and 1.2 are 4, 5 and 6.                                 *)
One == 5

(* The fallback value of supercon.calculate_tc.                            *)
FallbackTc == 40

-----------------------------------------------------------------------------
(* Values: a float, or what a call produced instead of one.                *)

Abs(i) == IF i < 0 THEN -i ELSE i

RECURSIVE Gcd(_, _)
Gcd(a, b) == IF b = 0 THEN a ELSE Gcd(b, a % b)

Pending == [kind |-> "pending", n |-> 0, d |-> 1, exc |-> ""]
NaN == [kind |-> "nan", n |-> 0, d |-> 1, exc |-> ""]
Inf(sign) == [kind |-> "inf", n |-> sign, d |-> 1, exc |-> ""]
Raise(e) == [kind |-> "raise", n |-> 0, d |-> 1, exc |-> e]
(* Underflow loses the magnitude and keeps "exactly 0.0".                   *)
Positive == [kind |-> "positive", n |-> 1, d |-> 1, exc |-> ""]

(* The rational n/d, d # 0, in lowest terms with a positive denominator.   *)
Num(n, d) ==
    LET g == Gcd(Abs(n), Abs(d))
        s == IF d < 0 THEN -1 ELSE 1
    IN [kind |-> "num", n |-> (s * n) \div g, d |-> (s * d) \div g, exc |-> ""]

Zero == Num(0, 1)

-----------------------------------------------------------------------------
(* allen_dynes, calculators.py 12-21.                                      *)
(* With lambda = l/100 and mu* = m/100 the denominator                     *)
(* lambda - mu*(1 + 0.62 lambda) is Denominator(l, m) / 10^6.              *)

Denominator(l, m) == 10000 * l - m * (10000 + 62 * l)

(* The strict guard of the source, line 14.                                *)
NotSuperconducting(l, m) == Denominator(l, m) < 0

(* numpy.exp(-1.04 (1 + lambda) / denominator) for a positive denominator: *)
(* the exponent is -10400 (100 + l) / Denominator, and the double          *)
(* exponential is exactly 0.0 below ln(2^-1075), about -745.13.  The first *)
(* conjunct keeps the products within TLC's integers; it is implied by the *)
(* second one for every lambda below 19.                                   *)
ExpUnderflows(l, m) ==
    /\ Denominator(l, m) <= 28000
    /\ 1040000 * (100 + l) > 74513 * Denominator(l, m)

allen_dynes(l, w, m, np) ==
    IF NotSuperconducting(l, m)
    THEN Zero
    ELSE IF Denominator(l, m) = 0
         THEN \* the division of line 19 is by zero: Python floats raise,
              \* numpy scalars give -inf (1 + lambda > 0), exp(-inf) = 0.0
              IF np THEN Zero ELSE Raise("ZeroDivisionError")
         ELSE IF ExpUnderflows(l, m) THEN Zero ELSE Positive

-----------------------------------------------------------------------------
(* scipy.interpolate.interp1d(x, y, kind="linear") called at x_new, as     *)
(* used in calculators.py 52-59 and 63 and in supercon.py 41.              *)

Col0(table) == [i \in 1..Len(table) |-> table[i][1]]
Col1(table) == [i \in 1..Len(table) |-> table[i][2]]

SeqMax(xs) == CHOOSE v \in {xs[i] : i \in 1..Len(xs)} :
                  \A i \in 1..Len(xs) : xs[i] <= v
SeqMin(xs) == CHOOSE v \in {xs[i] : i \in 1..Len(xs)} :
                  \A i \in 1..Len(xs) : v <= xs[i]

(* interp1d sorts by x with numpy.argsort(x, kind="mergesort"), a stable   *)
(* sort: the place of entry i is the number of entries that sort before it.*)
Rank(xs, i) ==
    1 + Cardinality({j \in 1..Len(xs) :
                        xs[j] < xs[i] \/ (xs[j] = xs[i] /\ j < i)})

(* A variant that takes x as already sorted (assume_sorted=True).          *)
ArgSortAssumeSorted(xs) == [k \in 1..Len(xs) |-> k]

ArgSort(xs) == [k \in 1..Len(xs) |-> CHOOSE i \in 1..Len(xs) : Rank(xs, i) = k]

Take(ys, ind) == [k \in 1..Len(ind) |-> ys[ind[k]]]

(* numpy.interp on sorted xs, for xs[1] <= xnew <= xs[n]: j is the last     *)
(* index with xs[j] <= xnew; an exact hit or the last point returns ys[j]. *)
CallLinearNp(xs, ys, xnew) ==
    LET j == Cardinality({i \in 1..Len(xs) : xs[i] <= xnew})
    IN IF j = Len(xs) \/ xs[j] = xnew
       THEN Num(ys[j], 1)
       ELSE Num(ys[j] * (xs[j + 1] - xs[j]) + (ys[j + 1] - ys[j]) * (xnew - xs[j]),
                xs[j + 1] - xs[j])

(* A variant of _call_linear without the clip of step 3: below the first   *)
(* point hi = 0 and lo = -1, the last point.                               *)
CallLinearNoClip(xs, ys, xnew) ==
    LET n == Len(xs)
        idx == Cardinality({i \in 1..n : xs[i] < xnew})
        hi == (IF idx > n - 1 THEN n - 1 ELSE idx) + 1
        lo == IF hi = 1 THEN n ELSE hi - 1
        dx == xs[hi] - xs[lo]
        dy == ys[hi] - ys[lo]
    IN IF dx # 0
       THEN Num(ys[lo] * dx + dy * (xnew - xs[lo]), dx)
       ELSE NaN

(* interp1d._call_linear, the path taken with fill_value="extrapolate":    *)
(* searchsorted (left), clipped to 1 .. n-1 (0-based), lo = hi - 1; a      *)
(* one-row table gives hi = 0 and lo = -1, the same row.  The slope        *)
(* (y_hi - y_lo) / (x_hi - x_lo) is computed in IEEE arithmetic.           *)
CallLinear(xs, ys, xnew) ==
    LET n == Len(xs)
        idx == Cardinality({i \in 1..n : xs[i] < xnew})
        hi0 == IF n = 1 THEN 0 ELSE IF idx < 1 THEN 1 ELSE IF idx > n - 1 THEN n - 1 ELSE idx
        hi == hi0 + 1
        lo == IF hi0 = 0 THEN n ELSE hi0
        dx == xs[hi] - xs[lo]
        dy == ys[hi] - ys[lo]
    IN IF dx # 0
       THEN Num(ys[lo] * dx + dy * (xnew - xs[lo]), dx)
       ELSE IF dy = 0 \/ xnew = xs[lo]
            THEN NaN                        \* 0/0, or inf * 0
            ELSE Inf(IF (dy > 0) = (xnew > xs[lo]) THEN 1 ELSE -1)

(* interp1d(x, y[, bounds_error=False, fill_value="extrapolate"])(xnew).   *)
(* Without extrapolation bounds_error is True: a ValueError outside        *)
(* [min x, max x].                                                         *)
Interp1d(x, y, extrapolate, xnew) ==
    IF Len(x) < 1
    THEN Raise("ValueError")
    ELSE LET ind == ArgSort(x)
             xs == Take(x, ind)
             ys == Take(y, ind)
         IN IF extrapolate
            THEN CallLinear(xs, ys, xnew)
            ELSE IF xnew < xs[1] \/ xnew > xs[Len(xs)]
                 THEN Raise("ValueError")
                 ELSE CallLinearNp(xs, ys, xnew)

-----------------------------------------------------------------------------
(* _calculate_iso_tc, calculators.py 43-63.                                *)

(* A variant that reads column 0, the temperatures (in kelvin), instead of *)
(* column 1.                                                               *)
AllBelowOneColumn0(table) == \A i \in 1..Len(table) : table[i][1] < 1

AllBelowOne(table) == SeqMax(Col1(table)) < One

NeverBelowOne(table) == SeqMin(Col1(table)) > One

_calculate_iso_tc(table, allow) ==
    IF AllBelowOne(table)
    THEN Zero
    ELSE IF NeverBelowOne(table)
         THEN IF allow
              THEN Interp1d(Col1(table), Col0(table), TRUE, One)
              ELSE NaN
         ELSE Interp1d(Col1(table), Col0(table), FALSE, One)

(* The calcfunction calculate_iso_tc, calculators.py 66-69.                *)
calculate_iso_tc(table) == _calculate_iso_tc(table, FALSE)

(* supercon.calculate_tc, supercon.py 37-43: only ValueError is caught.    *)
calculate_tc(table) ==
    LET r == Interp1d(Col1(table), Col0(table), FALSE, One)
    IN IF r.kind = "raise" /\ r.exc = "ValueError"
       THEN Num(FallbackTc, 1)
       ELSE r

-----------------------------------------------------------------------------
(* Text.  A file is the sequence of its lines (the text split at "\n"); a  *)
(* line is the sequence of its whitespace-separated tokens.  The fixed     *)
(* phrases the parsers look for are single tokens.                         *)

MarkerTok == " Integrated el-ph coupling"
PhononLabel == "Phonon smearing (meV)"
ElectronLabel == "Electron smearing (eV)"
FermiLabel == "Fermi window (eV)"
SummedLabel == "Summed el-ph coupling"

FinishTok == "Finish: Solving (isotropic) linearized Eliashberg"
TcMarkerTok == "Superconducting transition temp. Tc"
AllenDynesTok == "Estimated Allen-Dynes Tc ="
FermiTok == "Fermi energy coarse grid ="

(* The tokens made of the characters of \d+, of [\d\.]+ and of [\d\.-]+.   *)
DigitTokens == {"3"}
DigitDotTokens == DigitTokens \cup {"0.5", "1.5", "1.2.3"}
DigitDotMinusTokens == DigitDotTokens \cup {"-0.5"}

(* The tokens float() accepts, and their values in tenths; float() raises  *)
(* ValueError on every other token ("1.2.3", a word, a label).             *)
NumTokens == {"3", "0.5", "1.5", "-0.5"}
FloatOf(tok) ==
    CASE tok = "3" -> 30
      [] tok = "0.5" -> 5
      [] tok = "1.5" -> 15
      [] tok = "-0.5" -> -5

Range(f) == {f[i] : i \in DOMAIN f}
Last(sq) == sq[Len(sq)]

PendingParse == [kind |-> "pending", exc |-> "", data |-> <<>>]
RaiseParse(e) == [kind |-> "raise", exc |-> e, data |-> <<>>]
Parsed(d) == [kind |-> "ok", exc |-> "", data |-> d]

-----------------------------------------------------------------------------
(* parse_epw_a2f, parsers.py 10-36.                                        *)

(* The places where "\n Integrated el-ph coupling" occurs: the lines after *)
(* the first that start with the marker.                                   *)
MarkerLines(content) ==
    {i \in 2..Len(content) : content[i] # <<>> /\ content[i][1] = MarkerTok}

(* A variant of numpy.array that cuts every row to the shortest one.       *)
ToArray2DTruncating(rows) ==
    LET w == SeqMin([i \in 1..Len(rows) |-> Len(rows[i])])
    IN IF \E i \in 1..Len(rows) : \E j \in 1..w : rows[i][j] \notin NumTokens
       THEN RaiseParse("ValueError")
       ELSE Parsed([i \in 1..Len(rows) |-> [j \in 1..w |-> FloatOf(rows[i][j])]])

(* numpy.array(rows, dtype=float) of a list of lists of strings: rows of   *)
(* different lengths, or a token that is no number, raise ValueError.      *)
ToArray2D(rows) ==
    IF \E i, j \in 1..Len(rows) : Len(rows[i]) # Len(rows[j])
    THEN RaiseParse("ValueError")
    ELSE IF \E i \in 1..Len(rows) : \E j \in 1..Len(rows[i]) : rows[i][j] \notin NumTokens
         THEN RaiseParse("ValueError")
         ELSE Parsed([i \in 1..Len(rows) |->
                         [j \in 1..Len(rows[i]) |-> FloatOf(rows[i][j])]])

(* line.strip("# ").split(): the leading and trailing "#" are dropped.     *)
RECURSIVE StripHash(_)
StripHash(line) ==
    IF line = <<>> THEN line
    ELSE IF Head(line) = "#" THEN StripHash(Tail(line))
    ELSE IF Last(line) = "#" THEN StripHash(SubSeq(line, 1, Len(line) - 1))
    ELSE line

(* numpy.array(tokens, dtype=float).                                       *)
ToArray1D(toks) ==
    IF \E j \in 1..Len(toks) : toks[j] \notin NumTokens
    THEN RaiseParse("ValueError")
    ELSE Parsed([j \in 1..Len(toks) |-> FloatOf(toks[j])])

key_property_dict ==
    << <<ElectronLabel, "electron_smearing">>,
       <<FermiLabel, "fermi_window">>,
       <<SummedLabel, "summed_elph_coupling">> >>

(* The loops of lines 31-34 from footer line i and dictionary entry k on:  *)
(* a line that holds a label sets the property to float(line.split()[-1]). *)
RECURSIVE ScanFooter(_, _, _, _)
ScanFooter(footer, i, k, data) ==
    IF i > Len(footer) THEN Parsed(data)
    ELSE IF k > Len(key_property_dict) THEN ScanFooter(footer, i + 1, 1, data)
    ELSE LET key == key_property_dict[k][1]
             property == key_property_dict[k][2]
             line == footer[i]
         IN IF key \in Range(line)
            THEN IF Last(line) \in NumTokens
                 THEN ScanFooter(footer, i, k + 1,
                                 (property :> FloatOf(Last(line))) @@ data)
                 ELSE RaiseParse("ValueError")
            ELSE ScanFooter(footer, i, k + 1, data)

parse_epw_a2f(content) ==
    IF Cardinality(MarkerLines(content)) # 1
    THEN RaiseParse("ValueError")      \* line 14: not two values to unpack
    ELSE
    LET m == CHOOSE i \in MarkerLines(content) : TRUE
        a2f == SubSeq(content, 1, m - 1)
        footer == <<Tail(content[m])>> \o SubSeq(content, m + 1, Len(content))
        a2f_array == ToArray2D(a2f)
    IN  IF a2f_array.kind = "raise" THEN a2f_array
        ELSE IF Len(a2f_array.data[1]) = 0
        THEN RaiseParse("IndexError")  \* line 17: no column 0
        ELSE IF Len(footer) < 2 THEN RaiseParse("IndexError")
        ELSE
        LET rows == a2f_array.data
            lambda == ToArray1D(StripHash(footer[2]))
        IN  IF lambda.kind = "raise" THEN lambda
            ELSE IF Len(footer) < 4 THEN RaiseParse("IndexError")
            ELSE
            LET phonon_smearing == ToArray1D(StripHash(footer[4]))
            IN  IF phonon_smearing.kind = "raise" THEN phonon_smearing
                ELSE ScanFooter(footer, 1, 1,
                        [key \in {"frequency", "a2f", "lambda", "phonon_smearing"} |->
                            CASE key = "frequency" ->
                                    [i \in 1..Len(rows) |-> rows[i][1]]
                              [] key = "a2f" ->
                                    [i \in 1..Len(rows) |-> Tail(rows[i])]
                              [] key = "lambda" -> lambda.data
                              [] key = "phonon_smearing" -> phonon_smearing.data])

-----------------------------------------------------------------------------
(* parse_epw_max_eigenvalue, parsers.py 39-50.                             *)
(* A line of stdout is [indent, toks]: whether it starts with blanks, and  *)
(* its tokens; lines carry no trailing blanks.                             *)

Line(ind, toks) == [indent |-> ind, toks |-> toks]

SetMin(S) == CHOOSE v \in S : \A w \in S : v <= w
SetMax(S) == CHOOSE v \in S : \A w \in S : w <= v

FirstIndexOf(tok, toks) == SetMin({j \in 1..Len(toks) : toks[j] = tok})

FinishLines(text) == {i \in 1..Len(text) : FinishTok \in Range(text[i].toks)}

(* The whole text as a block: every line but the last is followed by "\n". *)
WholeText(text) ==
    [i \in 1..Len(text) |->
        [indent |-> text[i].indent, toks |-> text[i].toks, nl |-> i < Len(text)]]

(* A variant that cuts at the last occurrence of the marker.               *)
ParsingBlockLastMarker(text) ==
    IF FinishLines(text) = {} THEN WholeText(text)
    ELSE LET m == SetMax(FinishLines(text))
             k == SetMax({j \in 1..Len(text[m].toks) : text[m].toks[j] = FinishTok})
         IN [i \in 1..m |->
                IF i < m THEN WholeText(text)[i]
                ELSE [indent |-> text[m].indent,
                      toks |-> SubSeq(text[m].toks, 1, k - 1), nl |-> FALSE]]

(* file_content.split(FinishTok)[0], lines 43-45: the text before the      *)
(* first occurrence of the marker; its last line is cut at the marker.     *)
ParsingBlock(text) ==
    IF FinishLines(text) = {} THEN WholeText(text)
    ELSE LET m == SetMin(FinishLines(text))
             k == FirstIndexOf(FinishTok, text[m].toks)
         IN [i \in 1..m |->
                IF i < m THEN WholeText(text)[i]
                ELSE [indent |-> text[m].indent,
                      toks |-> SubSeq(text[m].toks, 1, k - 1), nl |-> FALSE]]

(* The whitespace between token j of line i and the token before it:       *)
(* "none", "newline" (one line break and nothing else) or "blank".         *)
Gap(block, i, j) ==
    IF j > 1 \/ block[i].indent THEN "blank"
    ELSE LET prev == {h \in 1..(i - 1) : block[h].toks # <<>>}
         IN IF prev = {} THEN (IF i > 1 THEN "blank" ELSE "none")
            ELSE IF i - SetMax(prev) = 1 THEN "newline" ELSE "blank"

LineItems(block, i) ==
    [j \in 1..Len(block[i].toks) |->
        [tok |-> block[i].toks[j],
         gap |-> Gap(block, i, j),
         nl |-> block[i].nl /\ j = Len(block[i].toks)]]

(* The tokens of the block from line i on, each with the whitespace before *)
(* it and whether a line break follows it immediately.                     *)
RECURSIVE Flatten(_, _)
Flatten(block, i) ==
    IF i > Len(block) THEN <<>>
    ELSE LineItems(block, i) \o Flatten(block, i + 1)

(* re_pattern, line 42, matched with its first number at item p:           *)
(*   \s+([\d\.]+)\s+([\d\.-]+)\s+\d+\s+[\d\.]+\s+\d+\n                     *)
(* \s+ also matches line breaks; after a match the line break that ended   *)
(* it is consumed and cannot start the next one.                           *)
MatchesAt(items, p, after) ==
    /\ p + 4 <= Len(items)
    /\ items[p].gap # "none"
    /\ ~(after /\ items[p].gap = "newline")
    /\ items[p].tok \in DigitDotTokens
    /\ items[p + 1].tok \in DigitDotMinusTokens
    /\ items[p + 2].tok \in DigitTokens
    /\ items[p + 3].tok \in DigitDotTokens
    /\ items[p + 4].tok \in DigitTokens
    /\ items[p + 4].nl

(* re_pattern.findall: the places of the leftmost non-overlapping matches. *)
RECURSIVE FindAll(_, _, _)
FindAll(items, p, after) ==
    IF p > Len(items) THEN <<>>
    ELSE IF MatchesAt(items, p, after)
         THEN <<p>> \o FindAll(items, p + 5, TRUE)
         ELSE FindAll(items, p + 1, FALSE)

(* The two groups of the match at item p.                                  *)
Groups(items, p) == <<items[p].tok, items[p + 1].tok>>

parse_epw_max_eigenvalue(text) ==
    LET items == Flatten(ParsingBlock(text), 1)
        found == FindAll(items, 1, FALSE)
        rows == [k \in 1..Len(found) |-> Groups(items, found[k])]
    IN IF \E k \in 1..Len(rows) : \E c \in 1..2 : rows[k][c] \notin NumTokens
       THEN RaiseParse("ValueError")   \* numpy.array(..., dtype=float), line 47
       ELSE Parsed("max_eigenvalue" :>
                [k \in 1..Len(rows) |-> <<FloatOf(rows[k][1]), FloatOf(rows[k][2])>>])

-----------------------------------------------------------------------------
(* EpwParser.parse_stdout, parsers/epw.py 76-121.                          *)

(* data_type_regex, lines 89-100: the key, the label of the pattern, the   *)
(* tokens its group matches and the unit that must follow.                 *)
data_type_regex ==
    << [key |-> "allen_dynes", label |-> AllenDynesTok,
        group |-> DigitDotTokens, unit |-> "K"],
       [key |-> "fermi_energy_coarse", label |-> FermiTok,
        group |-> DigitDotMinusTokens, unit |-> "eV"] >>

(* re.search(re_pattern, line): the places in the line where the label,    *)
(* with whitespace before it, is followed by a group and the unit.         *)
Search(entry, line) ==
    {j \in 1..(Len(line.toks) - 2) :
        /\ line.toks[j] = entry.label
        /\ j > 1 \/ line.indent
        /\ line.toks[j + 1] \in entry.group
        /\ line.toks[j + 2] = entry.unit}

(* A variant of the assignment that keeps the value already stored.        *)
StoreIfAbsent(data, key, value) == data @@ (key :> value)

(* parsed_data[data_key] = value, lines 115 and 119.                       *)
Store(data, key, value) == (key :> value) @@ data

(* The loops of lines 111-119 from line i on; k runs over the two patterns *)
(* and then the block marker.                                              *)
RECURSIVE ScanStdout(_, _, _, _)
ScanStdout(text, i, k, data) ==
    IF i > Len(text) THEN Parsed(data)
    ELSE IF k <= Len(data_type_regex)
    THEN LET entry == data_type_regex[k]
             hits == Search(entry, text[i])
         IN IF hits = {} THEN ScanStdout(text, i, k + 1, data)
            ELSE LET group1 == text[i].toks[SetMin(hits) + 1]
                 IN IF group1 \in NumTokens
                    THEN ScanStdout(text, i, k + 1,
                                    Store(data, entry.key, FloatOf(group1)))
                    ELSE RaiseParse("ValueError")
    ELSE IF TcMarkerTok \in Range(text[i].toks)
    THEN LET block == parse_epw_max_eigenvalue(text)
         IN IF block.kind = "raise" THEN block
            ELSE ScanStdout(text, i + 1, 1,
                            Store(data, "max_eigenvalue", block.data["max_eigenvalue"]))
    ELSE ScanStdout(text, i + 1, 1, data)

parse_stdout(text) == ScanStdout(text, 1, 1, <<>>)

-----------------------------------------------------------------------------
(* parse_epw_imag_iso and parse_epw_imag_aniso_gap0, parsers.py 53-95.     *)
(* A filename is [stem, sep, tag, temp, trail]: the characters before the  *)
(* separator, the separator character, the text up to the temperature,     *)
(* the temperature text and what follows it.                               *)

FileName(stem, sep, tag, temp, trail) ==
    [stem |-> stem, sep |-> sep, tag |-> tag, temp |-> temp, trail |-> trail]

IsoTag == "imag_iso_"
AnisoTag == "imag_aniso_gap0_"

(* The texts \d{3}\.\d{2} matches in full, and float() of them in tenths.  *)
TemperatureTexts == {"010.00", "020.00"}
TemperatureOf(text) == CASE text = "010.00" -> 100 [] text = "020.00" -> 200

(* A variant that compares the prefix with the stem character by character. *)
PrefixMatchesLiteral(pre, stem) == pre = stem

(* ^{prefix} of lines 63 and 85: the prefix is put into the pattern as it  *)
(* is, so its "." matches any character but a line break and every other   *)
(* character of the model matches itself.                                  *)
PrefixMatches(pre, stem) ==
    /\ Len(pre) = Len(stem)
    /\ \A i \in 1..Len(pre) :
          IF pre[i] = "." THEN stem[i] # "\n" ELSE pre[i] = stem[i]

(* pattern.match(filename), lines 66 and 88: after the prefix a literal    *)
(* dot, the tag, DDD.DD and the end of the string, which "$" also finds    *)
(* just before a final line break.                                         *)
PatternMatch(pre, tag, name) ==
    /\ PrefixMatches(pre, name.stem)
    /\ name.sep = "."
    /\ name.tag = tag
    /\ name.temp \in TemperatureTexts
    /\ name.trail \in {"", "\n"}

IsComment(line) == line # <<>> /\ Head(line) = "#"

(* numpy.loadtxt(..., comments="#", skiprows=1), lines 69-71 and 91-93:    *)
(* the first line is skipped, comment and empty lines are dropped, the     *)
(* rest is converted; one row gives a 1-D array, no row an empty array.    *)
(* The array is [ndim, rows].                                              *)
LoadTxt(content) ==
    LET body == IF content = <<>> THEN <<>> ELSE Tail(content)
        rows == SelectSeq(body, LAMBDA line : line # <<>> /\ ~IsComment(line))
        array == ToArray2D(rows)
    IN IF array.kind = "raise" THEN array
       ELSE Parsed([ndim |-> IF Len(rows) <= 1 THEN 1 ELSE 2, rows |-> array.data])

(* parsed_data[T] = gap_function, lines 72 and 94: a new key goes to the   *)
(* end of the dictionary, an existing key keeps its place.                 *)
SetItem(items, key, value) ==
    IF \E k \in 1..Len(items) : items[k][1] = key
    THEN [k \in 1..Len(items) |->
             IF items[k][1] = key THEN <<key, value>> ELSE items[k]]
    ELSE Append(items, <<key, value>>)

(* A variant of the loop that loads every content before it looks at the  *)
(* filename.                                                               *)
RECURSIVE ScanFilesLoadFirst(_, _, _, _, _)
ScanFilesLoadFirst(files, pre, tag, i, items) ==
    IF i > Len(files) THEN Parsed(items)
    ELSE LET gap_function == LoadTxt(files[i][2])
         IN IF gap_function.kind = "raise" THEN gap_function
            ELSE IF PatternMatch(pre, tag, files[i][1])
            THEN ScanFilesLoadFirst(files, pre, tag, i + 1,
                     SetItem(items, TemperatureOf(files[i][1].temp), gap_function.data))
            ELSE ScanFilesLoadFirst(files, pre, tag, i + 1, items)

(* The loop of lines 65-72 and 87-94 from entry i on.                      *)
RECURSIVE ScanFiles(_, _, _, _, _)
ScanFiles(files, pre, tag, i, items) ==
    IF i > Len(files) THEN Parsed(items)
    ELSE LET filename == files[i][1]
             content == files[i][2]
         IN IF PatternMatch(pre, tag, filename)
            THEN LET T == TemperatureOf(filename.temp)
                     gap_function == LoadTxt(content)
                 IN IF gap_function.kind = "raise" THEN gap_function
                    ELSE ScanFiles(files, pre, tag, i + 1,
                                   SetItem(items, T, gap_function.data))
            ELSE ScanFiles(files, pre, tag, i + 1, items)

parse_epw_imag_iso(files, pre) == ScanFiles(files, pre, IsoTag, 1, <<>>)

parse_epw_imag_aniso_gap0(files, pre) == ScanFiles(files, pre, AnisoTag, 1, <<>>)

-----------------------------------------------------------------------------
(* gap_iso_imag_temp and gap_aniso_temp, tools/plot.py 16-125: the part    *)
(* that chooses the initial guess of the fit.  An array is a sequence of   *)
(* rows of two values; temperatures and the exponent 3.3 are in tenths.    *)

PendingFit == [kind |-> "pending", exc |-> "", p0 |-> <<>>]
RaiseFit(e) == [kind |-> "raise", exc |-> e, p0 |-> <<>>]
NoFit == [kind |-> "nofit", exc |-> "", p0 |-> <<>>]
CurveFit(guess) == [kind |-> "fit", exc |-> "", p0 |-> guess]

DefaultExponent == 33

(* float(arrayname.replace('_', '.')), lines 36 and 80.                    *)
ArrayNames == {"5_0", "10_0", "20_0", "10_00"}
TemperatureOfName(arrayname) ==
    CASE arrayname = "5_0" -> 50
      [] arrayname = "10_0" -> 100
      [] arrayname = "20_0" -> 200
      [] arrayname = "10_00" -> 100

(* array[0, -1] * 1000, line 31.                                           *)
FirstGap(array) ==
    LET v == Last(array[1])
    IN IF v.kind = "nan" THEN NaN ELSE Num(1000 * v.n, v.d)

(* The lists imag_temp and imag_delta of lines 27-37 from entry i on: an   *)
(* array whose gap is NaN is left out.                                     *)
RECURSIVE ImagLists(_, _)
ImagLists(arrays, i) ==
    IF i > Len(arrays) THEN <<>>
    ELSE LET gap == FirstGap(arrays[i][2])
         IN IF gap.kind = "nan" THEN ImagLists(arrays, i + 1)
            ELSE << <<TemperatureOfName(arrays[i][1]), gap>> >>
                     \o ImagLists(arrays, i + 1)

(* [imag_temp[-1], 3.3, imag_delta[0]], lines 53 and 110.                  *)
DefaultGuess(temps, deltas) == <<Last(temps), DefaultExponent, deltas[1]>>

gap_iso_imag_temp(arrays, do_fit, guess) ==
    LET lists == ImagLists(arrays, 1)
        imag_temp == [k \in 1..Len(lists) |-> lists[k][1]]
        imag_delta == [k \in 1..Len(lists) |-> lists[k][2]]
    IN IF ~do_fit THEN NoFit
       ELSE IF guess # <<>> THEN CurveFit(guess)
       ELSE IF lists = <<>> THEN RaiseFit("IndexError")
       ELSE CurveFit(DefaultGuess(imag_temp, imag_delta))

(* The dictionary of line 79-81 after the entries up to i.                 *)
RECURSIVE DictFiles(_, _)
DictFiles(arrays, i) ==
    IF i = 0 THEN <<>>
    ELSE SetItem(DictFiles(arrays, i - 1),
                 TemperatureOfName(arrays[i][1]), arrays[i][2])

(* The sums of the weights and of weight times value from row i on.       *)
RECURSIVE SumWeights(_, _)
SumWeights(array, i) ==
    IF i > Len(array) THEN 0 ELSE array[i][1].n + SumWeights(array, i + 1)

RECURSIVE SumWeighted(_, _)
SumWeighted(array, i) ==
    IF i > Len(array) THEN 0
    ELSE array[i][1].n * array[i][2].n + SumWeighted(array, i + 1)

(* np.average(array[:, 1], weights=array[:, 0]), line 91.                  *)
Average(array) ==
    IF \E i \in 1..Len(array) : array[i][1].kind = "nan" \/ array[i][2].kind = "nan"
    THEN NaN
    ELSE IF SumWeights(array, 1) = 0 THEN Raise("ZeroDivisionError")
    ELSE Num(SumWeighted(array, 1), SumWeights(array, 1))

gap_aniso_temp(arrays, do_fit, guess) ==
    LET dict_files == DictFiles(arrays, Len(arrays))
        Ts == [k \in 1..Len(dict_files) |-> dict_files[k][1]]
        average_deltas == [k \in 1..Len(dict_files) |-> Average(dict_files[k][2])]
    IN IF \E k \in 1..Len(Ts) : average_deltas[k].kind = "raise"
       THEN RaiseFit("ZeroDivisionError")
       ELSE IF ~do_fit THEN NoFit
       ELSE IF guess = <<>> /\ Ts = <<>> THEN RaiseFit("IndexError")
       ELSE IF Len(Ts) < 3 THEN RaiseFit("UnboundLocalError")   \* line 120: Tc
       ELSE IF guess # <<>> THEN CurveFit(guess)
       ELSE CurveFit(DefaultGuess(Ts, average_deltas))

-----------------------------------------------------------------------------
(* calculate_lambda_omega, calculators.py 24-40.  Arithmetic on the exact  *)
(* rationals Num(n, d).                                                    *)

Plus(a, b) == Num(a.n * b.d + b.n * a.d, a.d * b.d)
Minus(a, b) == Num(a.n * b.d - b.n * a.d, a.d * b.d)
Times(a, b) == Num(a.n * b.n, a.d * b.d)
Over(a, b) == Num(a.n * b.d, a.d * b.n)

(* spectrum / frequency, line 32: element by element.                      *)
Quotients(ys, xs) == [i \in 1..Len(ys) |-> Over(ys[i], xs[i])]

(* A variant of the quadrature: the left rectangle rule.                   *)
RECURSIVE LeftRectangles(_, _, _)
LeftRectangles(y, x, i) ==
    IF i >= Len(x) THEN Zero
    ELSE Plus(Times(Minus(x[i + 1], x[i]), y[i]), LeftRectangles(y, x, i + 1))

(* numpy.trapezoid(y, x) from interval i on:                               *)
(* sum of (x[i+1] - x[i]) * (y[i+1] + y[i]) / 2.                           *)
RECURSIVE trapezoid(_, _, _)
trapezoid(y, x, i) ==
    IF i >= Len(x) THEN Zero
    ELSE Plus(Over(Times(Minus(x[i + 1], x[i]), Plus(y[i + 1], y[i])), Num(2, 1)),
              trapezoid(y, x, i + 1))

(* The tuple of line 40.  omega_log is exp(2 / lambda_ * ...) times a      *)
(* constant: NaN when lambda_ is 0.0 (inf * 0.0), a positive number        *)
(* otherwise; its magnitude is not modelled.                               *)
calculate_lambda_omega(freq, spec) ==
    LET lambda_ == Times(Num(2, 1), trapezoid(Quotients(spec, freq), freq, 1))
        omega == IF lambda_.n = 0 THEN NaN ELSE Positive
    IN <<lambda_, omega>>

-----------------------------------------------------------------------------
(* parse_epw_bands and EpwParser.parse_bands, parsers/epw.py 141-157.      *)
(* A band-structure text is a sequence of k-point blocks [kpoint,          *)
(* energies]: the three coordinates of the point and its band energies.    *)

(* The band-structure parser: kpoints (N x 3) and bands (N x M) from the N *)
(* blocks of the text; blocks with different numbers of energies are a     *)
(* parse failure.                                                          *)
parse_epw_bands(content) ==
    IF \E i, j \in 1..Len(content) :
           Len(content[i].energies) # Len(content[j].energies)
    THEN RaiseParse("ValueError")
    ELSE Parsed([kpoints |-> [i \in 1..Len(content) |-> content[i].kpoint],
                 bands |-> [i \in 1..Len(content) |-> content[i].energies]])

(* self.inputs.kfpoints, line 146: a value that is false, a node that      *)
(* holds a mesh or a list of points, or no such attribute at all.          *)
NoKfpoints == [kind |-> "none", points |-> <<>>]
MissingKfpoints == [kind |-> "missing", points |-> <<>>]
KfpointsMesh == [kind |-> "mesh", points |-> <<>>]
KfpointsList(points) == [kind |-> "list", points |-> points]

(* self.inputs.kfpoints.get_kpoints(), line 147: the explicit list of the  *)
(* node; a node that holds a mesh has none.                                *)
get_kpoints(node) ==
    IF node.kind = "list" THEN Parsed(node.points) ELSE RaiseParse("AttributeError")

(* A variant of set_bands that stores the bands without comparing their    *)
(* number of rows with the k-points.                                       *)
set_bands_unchecked(kpoints, bands) == Parsed([kpoints |-> kpoints, bands |-> bands])

(* bands_data.set_kpointsdata(kpoints_data); bands_data.set_bands(bands),  *)
(* lines 153-155: BandsData refuses bands that do not have one row per     *)
(* k-point.                                                                *)
set_bands(kpoints, bands) ==
    IF Len(kpoints) # Len(bands) THEN RaiseParse("ValueError")
    ELSE Parsed([kpoints |-> kpoints, bands |-> bands])

parse_bands(content, node) ==
    LET parsed == parse_epw_bands(content)
    IN IF parsed.kind = "raise" THEN parsed
       ELSE IF node.kind = "missing" THEN RaiseParse("AttributeError")
       ELSE LET kpoints_data == IF node.kind # "none" THEN get_kpoints(node)
                                ELSE Parsed(parsed.data.kpoints)
            IN IF kpoints_data.kind = "raise" THEN kpoints_data
               ELSE set_bands(kpoints_data.data, parsed.data.bands)

-----------------------------------------------------------------------------
(* SuperConWorkChain, workflows/supercon.py 46-390: the steps of the       *)
(* outline of lines 95-109.                                                *)

(* A finished sub-process: whether it finished ok, and the allen_dynes of  *)
(* its output_parameters, 0 when the key is not there.                     *)
Node(ok, tc) == [ok |-> ok, allen_dynes |-> tc]
NoNode == [ok |-> FALSE, allen_dynes |-> -1]

(* What a step returns when it returns no exit code.                       *)
None == -1

Running == [status |-> -1, exception |-> ""]
Finished(status) == [status |-> status, exception |-> ""]
Excepted(e) == [status |-> -1, exception |-> e]

ERROR_ALLEN_DYNES_NOT_CONVERGED == 402
ERROR_SUB_PROCESS_EPW_ISO == 403
ERROR_SUB_PROCESS_EPW_ANISO == 404

(* A variant of setup that puts every distance on the list twice.          *)
setup_twice(inputs) ==
    [interpolation_list |-> SortSeq(inputs.interpolation_distance \o inputs.interpolation_distance,
                                    LAMBDA a, b : a < b),
     iteration |-> 0,
     epw_interp |-> <<>>,
     is_converged |-> FALSE,
     degaussq |-> FALSE,
     final_epw_iso |-> NoNode,
     final_epw_aniso |-> NoNode]

(* setup, lines 210-224.                                                   *)
setup(inputs) ==
    [interpolation_list |-> SortSeq(inputs.interpolation_distance, LAMBDA a, b : a < b),
     iteration |-> 0,
     epw_interp |-> <<>>,
     is_converged |-> FALSE,
     degaussq |-> FALSE,
     final_epw_iso |-> NoNode,
     final_epw_aniso |-> NoNode]

(* A variant of the try block that is content with two runs.              *)
CheckConvergenceOfTwo(inputs, ctx) ==
    LET n == Len(ctx.epw_interp)
    IN IF n >= 2 /\ \A k \in (n - 1)..n : ctx.epw_interp[k].allen_dynes # 0
       THEN Abs(ctx.epw_interp[n - 1].allen_dynes - ctx.epw_interp[n].allen_dynes)
                < inputs.convergence_threshold
       ELSE ctx.is_converged

(* The try block of lines 228-237: with three interpolation runs that all  *)
(* have an allen_dynes, is_converged is set from the last two; otherwise   *)
(* IndexError or KeyError is caught and it keeps its value.                *)
CheckConvergence(inputs, ctx) ==
    LET n == Len(ctx.epw_interp)
    IN IF n >= 3 /\ \A k \in (n - 2)..n : ctx.epw_interp[k].allen_dynes # 0
       THEN Abs(ctx.epw_interp[n - 1].allen_dynes - ctx.epw_interp[n].allen_dynes)
                < inputs.convergence_threshold
       ELSE ctx.is_converged

(* A variant of should_run_conv that checks the runs also when there is no *)
(* threshold.                                                              *)
ConvergedAfterCheckAlways(inputs, ctx) == CheckConvergence(inputs, ctx)

(* should_run_conv, lines 226-252: the new is_converged.                   *)
ConvergedAfterCheck(inputs, ctx) ==
    IF inputs.has_convergence_threshold THEN CheckConvergence(inputs, ctx) ELSE TRUE

(* run_conv, lines 256-277, with the node of the sub-process it submits:   *)
(* the largest distance left is taken off the list and the node, with the  *)
(* number of its submission as pk, is appended to epw_interp.              *)
run_conv(ctx, node) ==
    [ctx EXCEPT
        !.iteration = @ + 1,
        !.interpolation_list = SubSeq(@, 1, Len(@) - 1),
        !.epw_interp = Append(@, [ok |-> node.ok, allen_dynes |-> node.allen_dynes,
                                  pk |-> ctx.iteration + 1])]

(* A variant of inspect_conv that keeps a failed work chain in epw_interp. *)
inspect_conv_keeping(ctx) == [ctx EXCEPT !.degaussq = TRUE]

(* inspect_conv, lines 279-296: a failed work chain is taken out again and *)
(* no exit code is returned (line 287 is a comment).                       *)
inspect_conv(ctx) ==
    IF ~Last(ctx.epw_interp).ok
    THEN [ctx EXCEPT !.epw_interp = SubSeq(@, 1, Len(@) - 1)]
    ELSE [ctx EXCEPT !.degaussq = TRUE]

(* A variant of inspect_final_epw_iso that lets a failure pass.            *)
inspect_final_epw_iso_unchecked(ctx) == None

(* inspect_final_epw_iso, lines 331-337.                                   *)
inspect_final_epw_iso(ctx) ==
    IF ~ctx.final_epw_iso.ok THEN ERROR_SUB_PROCESS_EPW_ISO ELSE None

(* inspect_final_epw_aniso, lines 354-360.                                 *)
inspect_final_epw_aniso(ctx) ==
    IF ~ctx.final_epw_aniso.ok THEN ERROR_SUB_PROCESS_EPW_ANISO ELSE None

(* The outputs of results, lines 362-367.                                  *)
results == {"Tc_iso", "parameters", "max_eigenvalue", "a2f"}

(* should_run_final, lines 298-308, as the predicate of if_: True runs the *)
(* block; the ExitCode it returns otherwise is no bool: an engine that     *)
(* checks the predicate raises TypeError, one that does not takes the      *)
(* non-empty tuple for true.                                               *)
should_run_final(inputs, ctx, strict) ==
    IF ctx.is_converged \/ inputs.always_run_final THEN "run"
    ELSE IF strict THEN "TypeError" ELSE "run"

-----------------------------------------------------------------------------
(* EpwPrepWorkChain, workflows/prep.py: the steps of the outline of lines  *)
(* 174-187.                                                                *)

ERROR_SUB_PROCESS_FAILED_PHONON == 403
ERROR_SUB_PROCESS_FAILED_WANNIER90 == 404
ERROR_SUB_PROCESS_FAILED_EPW == 405
ERROR_SUB_PROCESS_FAILED_EPW_BANDS == 406

is_finished_ok(exit_status) == exit_status = 0

inspect_wannier90(ctx) ==
    IF ~is_finished_ok(ctx.workchain_w90_bands)
    THEN ERROR_SUB_PROCESS_FAILED_WANNIER90 ELSE None

(* A variant of inspect_ph that goes on after a failed PhBaseWorkChain.    *)
inspect_ph_unchecked(ctx) == None

inspect_ph(ctx) ==
    IF ~is_finished_ok(ctx.workchain_ph)
    THEN ERROR_SUB_PROCESS_FAILED_PHONON ELSE None

inspect_epw(ctx) ==
    IF ~is_finished_ok(ctx.workchain_epw)
    THEN ERROR_SUB_PROCESS_FAILED_EPW ELSE None

(* The checkpoint folder run_epw hands to the EpwBaseWorkChain, lines      *)
(* 439-447.                                                                *)
parent_folder_chk(inputs, ctx) ==
    IF ctx.w90_class_name = "Wannier90OptimizeWorkChain" /\ inputs.optimize_disproj
    THEN "wannier90_optimal__remote_folder"
    ELSE "wannier90.remote_folder"

should_run_epw_bands(inputs) == inputs.epw_bands

inspect_epw_bands(ctx) ==
    IF ~is_finished_ok(ctx.workchain_epw_bands)
    THEN ERROR_SUB_PROCESS_FAILED_EPW_BANDS ELSE None

-----------------------------------------------------------------------------
(* validate_inputs, workflows/base.py 36-70.  inputs is the set of the     *)
(* names in the namespace; the result is the message returned, without its *)
(* backquotes, or "None".                                                  *)

all(names, inputs) == \A name \in names : name \in inputs
any(names, inputs) == \E name \in names : name \in inputs

NotValidated == "not validated"

(* A variant that looks at the q grid before the k grid.                   *)
validate_inputs_q_first(inputs) ==
    IF all({"qfpoints", "qfpoints_distance"}, inputs)
    THEN "Can only specify one of the qfpoints, qfpoints_distance."
    ELSE IF ~any({"qfpoints", "qfpoints_distance"}, inputs)
    THEN "Either qfpoints or qfpoints_distance must be specified."
    ELSE IF all({"kfpoints", "kfpoints_factor"}, inputs)
    THEN "Can only specify one of the kfpoints, kfpoints_factor."
    ELSE IF ~any({"kfpoints", "kfpoints_factor"}, inputs)
    THEN "Either kfpoints or kfpoints_factor must be specified."
    ELSE "None"

validate_inputs(inputs) ==
    IF all({"kfpoints", "kfpoints_factor"}, inputs)
    THEN "Can only specify one of the kfpoints, kfpoints_factor."
    ELSE IF ~any({"kfpoints", "kfpoints_factor"}, inputs)
    THEN "Either kfpoints or kfpoints_factor must be specified."
    ELSE IF all({"qfpoints", "qfpoints_distance"}, inputs)
    THEN "Can only specify one of the qfpoints, qfpoints_distance."
    ELSE IF ~any({"qfpoints", "qfpoints_distance"}, inputs)
    THEN "Either qfpoints or qfpoints_distance must be specified."
    ELSE "None"

-----------------------------------------------------------------------------
(* check_kpoints_qpoints_compatibility, tools/kpoints.py 1-23.  A          *)
(* KpointsData is its mesh and its shift, the shift in tenths.             *)

KpointsData(mesh, shift) == [mesh |-> mesh, shift |-> shift]

NoShift == <<0, 0, 0>>

Compatible(multiplicities) ==
    Parsed([is_compatible |-> TRUE,
            message |-> "The kpoints and qpoints are compatible with multiplicities",
            multiplicities |-> multiplicities])

Incompatible(message) ==
    Parsed([is_compatible |-> FALSE, message |-> message, multiplicities |-> <<>>])

check_kpoints_qpoints_compatibility(k, q) ==
    IF \E i \in 1..3 : q.mesh[i] = 0
    THEN \* k // q of line 14 divides by zero
         RaiseParse("ZeroDivisionError")
    ELSE LET multiplicities == [i \in 1..3 |-> k.mesh[i] \div q.mesh[i]]
             remainder == [i \in 1..3 |-> k.mesh[i] % q.mesh[i]]
         IN IF k.shift # NoShift \/ q.shift # NoShift
            THEN Incompatible("Shift grid is not supported.")
            ELSE IF remainder = <<0, 0, 0>>
            THEN Compatible(multiplicities)
            ELSE Incompatible("The kpoints and qpoints are not compatible.")

-----------------------------------------------------------------------------
(* EpwBaseWorkChain, workflows/base.py 72-401: validate_kpoints, the       *)
(* process handler, and the steps of the outline of lines 152-161 that     *)
(* BaseRestartWorkChain provides.                                          *)

ERROR_COARSE_GRID_NOT_VALID == 202
ERROR_UNRECOVERABLE_FAILURE == 300
ERROR_MAXIMUM_ITERATIONS_EXCEEDED == 401
ERROR_SECOND_CONSECUTIVE_UNHANDLED_FAILURE == 402
FailureThreshold == 400

(* What a step hands back to the engine: an exit code or None, or the      *)
(* exception it raised, and the context it leaves.                         *)
StepResult(exit_code, exception, ctx) ==
    [exit_code |-> exit_code, exception |-> exception, ctx |-> ctx]

(* get_kpoints_from_chk_folder, lines 17-34: the mesh of mp_grid with no   *)
(* shift, or ValueError.                                                   *)
get_kpoints_from_chk_folder(inputs) ==
    IF inputs.mp_grid THEN Parsed(KpointsData(inputs.kpoints.mesh, NoShift))
    ELSE RaiseParse("ValueError")

(* The coarse k-points of lines 313-326: those of the creator of           *)
(* parent_folder_epw, the input, those of the chk folder, or exit code 202 *)
(* (kind "pending": no k-points and no exception).                         *)
CoarseKpoints(inputs) ==
    IF "parent_folder_epw" \in inputs.names \/ "kpoints" \in inputs.names
    THEN Parsed(inputs.kpoints)
    ELSE IF "parent_folder_chk" \in inputs.names
    THEN get_kpoints_from_chk_folder(inputs)
    ELSE PendingParse

(* The coarse q-points of lines 313-333.                                   *)
CoarseQpoints(inputs) ==
    IF \E name \in {"parent_folder_epw", "qpoints", "parent_folder_ph"} :
          name \in inputs.names
    THEN Parsed(inputs.qpoints)
    ELSE PendingParse

(* The fine grids of lines 349-372.                                        *)
FineGrids(inputs, ctx) ==
    [ctx EXCEPT
        !.qfpoints = IF "qfpoints" \in inputs.names
                     THEN "inputs.qfpoints" ELSE "create_kpoints_from_distance",
        !.kfpoints = IF "kfpoints" \in inputs.names
                     THEN "inputs.kfpoints" ELSE "kfpoints_factor * qfpoints"]

(* validate_kpoints, lines 300-373.                                        *)
validate_kpoints(inputs, ctx) ==
    LET k == CoarseKpoints(inputs)
        q == CoarseQpoints(inputs)
    IN IF k.kind = "pending"
       THEN StepResult(ERROR_COARSE_GRID_NOT_VALID, "", ctx)
       ELSE IF k.kind = "raise"
       THEN StepResult(None, k.exc, ctx)
       ELSE IF q.kind = "pending"
       THEN StepResult(ERROR_COARSE_GRID_NOT_VALID, "", ctx)
       ELSE LET checked == check_kpoints_qpoints_compatibility(k.data, q.data)
                coarse == [ctx EXCEPT !.kpoints = k.data, !.qpoints = q.data]
            IN IF checked.kind = "raise"
               THEN StepResult(None, checked.exc, ctx)
               ELSE IF ~checked.data.is_compatible
               THEN StepResult(ERROR_COARSE_GRID_NOT_VALID, "", coarse)
               ELSE StepResult(None, "", FineGrids(inputs, coarse))

(* A finished EpwCalculation.                                              *)
is_failed(calculation) == calculation.exit_status # 0

NoReport == [do_break |-> FALSE, exit_code |-> None]
ProcessHandlerReport(do_break, exit_code) == [do_break |-> do_break, exit_code |-> exit_code]

(* A variant of the handler that also takes exit status 400.               *)
handle_unrecoverable_failure_inclusive(calculation) ==
    IF is_failed(calculation) /\ calculation.exit_status <= FailureThreshold
    THEN ProcessHandlerReport(TRUE, ERROR_UNRECOVERABLE_FAILURE)
    ELSE NoReport

(* handle_unrecoverable_failure, lines 396-401.                            *)
handle_unrecoverable_failure(calculation) ==
    IF is_failed(calculation) /\ calculation.exit_status < FailureThreshold
    THEN ProcessHandlerReport(TRUE, ERROR_UNRECOVERABLE_FAILURE)
    ELSE NoReport

(* inspect_process of BaseRestartWorkChain with the one handler of this    *)
(* work chain: the exit code of a report ends the work chain; a failure    *)
(* without report is restarted once; otherwise the work is done.           *)
inspect_process(ctx) ==
    LET node == ctx.children[ctx.iteration]
        report == handle_unrecoverable_failure(node)
    IN IF is_failed(node) /\ report = NoReport
       THEN IF ctx.unhandled_failure
            THEN StepResult(ERROR_SECOND_CONSECUTIVE_UNHANDLED_FAILURE, "", ctx)
            ELSE StepResult(None, "", [ctx EXCEPT !.unhandled_failure = TRUE])
       ELSE IF report # NoReport
       THEN StepResult(report.exit_code, "", [ctx EXCEPT !.unhandled_failure = FALSE])
       ELSE StepResult(None, "", [ctx EXCEPT !.unhandled_failure = FALSE,
                                             !.is_finished = TRUE])

-----------------------------------------------------------------------------
(* The inputs.                                                             *)

Lambdas == 0..MaxLambda
Mus == 0..MaxMu
Omegas == 1..MaxOmega

TableRows == (1..MaxTemp) \X ((One - EigBelow)..(One + EigAbove))

(* A table holds one row per temperature, in any order.                    *)
Tables ==
    UNION {{t \in [1..n -> TableRows] :
               \A i, j \in 1..n : t[i][1] = t[j][1] => i = j} : n \in 1..MaxRows}

IdleAllenDynes ==
    /\ lambo = 0 /\ mu_star = 0 /\ omega_log = 1 /\ np_scalars = FALSE
    /\ ad_result = Pending

IdleTc ==
    /\ max_eigenvalue = <<>> /\ allow_extrapolation = FALSE
    /\ tc_result = Pending /\ iso_tc_node = Pending /\ tc_node = Pending

(* The .a2f files: lines of numbers, the marker line, the line of lambda    *)
(* values, the phonon-smearing label and values, and the three labelled    *)
(* scalars, each part present, absent or malformed.                        *)
NumRow(w) == [j \in 1..w |-> IF j % 2 = 1 THEN "0.5" ELSE "1.5"]

TableLines == {NumRow(w) : w \in 0..MaxCols} \cup {<<"0.5", "x">>}

TableParts == UNION {[1..n -> TableLines] : n \in 0..MaxTableRows}

ValueLines == {<<"#">> \o NumRow(w) : w \in 0..(MaxCols - 1)} \cup {<<"#", "x">>}

Optional(line) == {<<>>, <<line>>}

FooterParts ==
    {<<>>}
    \cup {<<l>> : l \in ValueLines}
    \cup {<<l, <<PhononLabel>> >> : l \in ValueLines}
    \cup {<<l, <<PhononLabel>>, p>> \o e \o f \o c :
             l \in ValueLines, p \in ValueLines,
             e \in Optional(<<ElectronLabel, "0.5">>) \cup {<< <<ElectronLabel>> >>},
             f \in Optional(<<FermiLabel, "1.5">>),
             c \in Optional(<<SummedLabel, "0.5">>)}

Files ==
    {t \o m \o f \o x :
        t \in TableParts, m \in Optional(<<MarkerTok>>),
        f \in FooterParts, x \in Optional(<<MarkerTok>>)}

(* The stdout texts given to parse_epw_max_eigenvalue: table rows (well    *)
(* formed, with a token float() rejects, not indented, broken over two     *)
(* lines), the marker on its own line and after a row, an empty line and a *)
(* line of words.                                                          *)
EigenvalueLines ==
    { Line(TRUE, <<"0.5", "1.5", "3", "0.5", "3">>),
      Line(TRUE, <<"1.5", "-0.5", "3", "1.5", "3">>),
      Line(TRUE, <<"1.2.3", "0.5", "3", "0.5", "3">>),
      Line(FALSE, <<"0.5", "0.5", "3", "0.5", "3">>),
      Line(TRUE, <<"0.5", "1.5">>),
      Line(FALSE, <<"3", "0.5", "3">>),
      Line(FALSE, <<FinishTok>>),
      Line(TRUE, <<"1.5", "1.5", "3", "0.5", "3", FinishTok>>),
      Line(FALSE, <<>>),
      Line(TRUE, <<"w">>) }

EigenvalueTexts == UNION {[1..n -> EigenvalueLines] : n \in 0..MaxStdoutLines}

(* The stdout texts given to parse_stdout: lines of the two scalar fields  *)
(* with several values, well formed or not, the marker of the              *)
(* max-eigenvalue block, table rows and the end of the block.              *)
StdoutLines ==
    { Line(TRUE, <<AllenDynesTok, "0.5", "K">>),
      Line(TRUE, <<AllenDynesTok, "1.5", "K">>),
      Line(TRUE, <<AllenDynesTok, "1.2.3", "K">>),
      Line(TRUE, <<AllenDynesTok, "-0.5", "K">>),
      Line(FALSE, <<AllenDynesTok, "3", "K">>),
      Line(TRUE, <<FermiTok, "0.5", "eV">>),
      Line(TRUE, <<FermiTok, "-0.5", "eV">>),
      Line(TRUE, <<TcMarkerTok>>),
      Line(TRUE, <<"0.5", "1.5", "3", "0.5", "3">>),
      Line(FALSE, <<FinishTok>>) }

StdoutTexts == UNION {[1..n -> StdoutLines] : n \in 0..MaxStdoutLines}

(* The filenames of a mapping: well-formed names of both kinds, a name     *)
(* with a final line break, with another separator, with two integer       *)
(* digits, names whose stem is "a.b" or "axb", and notes.txt.              *)
Aiida == <<"a", "i", "i", "d", "a">>
DotStem == <<"a", ".", "b">>

FileNames ==
    { FileName(Aiida, ".", IsoTag, "010.00", ""),
      FileName(Aiida, ".", IsoTag, "020.00", ""),
      FileName(Aiida, ".", IsoTag, "010.00", "\n"),
      FileName(Aiida, ".", AnisoTag, "010.00", ""),
      FileName(Aiida, ".", AnisoTag, "020.00", ""),
      FileName(Aiida, "x", IsoTag, "010.00", ""),
      FileName(Aiida, ".", IsoTag, "10.00", ""),
      FileName(DotStem, ".", IsoTag, "010.00", ""),
      FileName(<<"a", "x", "b">>, ".", IsoTag, "020.00", ""),
      FileName(DotStem, ".", AnisoTag, "010.00", ""),
      FileName(<<"a", "x", "b">>, ".", AnisoTag, "010.00", ""),
      FileName(<<"n", "o", "t", "e", "s">>, ".", "txt", "", "") }

Prefixes == {Aiida, DotStem}

(* The contents: a table of two rows under a header, a table of one row    *)
(* under a first line that is no number and a comment, and plain text.     *)
GapContents ==
    { << <<"w">>, <<"0.5", "1.5">>, <<"1.5", "0.5">> >>,
      << <<"0.5", "x">>, <<"#", "w">>, <<"1.5", "1.5">> >>,
      << <<"w">>, <<"0.5", "x">> >> }

(* A dictionary: any order of entries, no filename twice.                  *)
FileMappings ==
    {f \in UNION {[1..n -> FileNames \X GapContents] : n \in 0..MaxFiles} :
        \A i, j \in 1..Len(f) : i # j => f[i][1] # f[j][1]}

IdleGap ==
    /\ file_contents = <<>> /\ prefix = <<>>
    /\ iso_result = PendingParse /\ aniso_result = PendingParse

gapVars == <<file_contents, prefix, iso_result, aniso_result>>

(* The arrays of a gap-function node: two rows, one row, and one row whose *)
(* gap is NaN; entries in any order, no name twice.                        *)
GapArrays ==
    { << <<Num(1, 1), Num(3, 1)>>, <<Num(3, 1), Num(1, 1)>> >>,
      << <<Num(2, 1), Num(1, 1)>> >>,
      << <<Num(1, 1), NaN>> >> }

GapNodes ==
    {f \in UNION {[1..n -> ArrayNames \X GapArrays] : n \in 0..MaxArrays} :
        \A i, j \in 1..Len(f) : i # j => f[i][1] # f[j][1]}

SuppliedGuess == <<150, 20, Num(2, 1)>>

IdlePlot ==
    /\ gap_functions = <<>> /\ fit = FALSE /\ p0 = <<>>
    /\ iso_fit = PendingFit /\ aniso_fit = PendingFit

plotVars == <<gap_functions, fit, p0, iso_fit, aniso_fit>>

(* The spectra: strictly increasing positive frequencies and as many       *)
(* non-negative a2F values.                                                *)
FrequencyArrays ==
    {f \in UNION {[1..n -> 1..MaxFrequency] : n \in 0..MaxPoints} :
        \A i \in 1..(Len(f) - 1) : f[i] < f[i + 1]}

SpectrumArrays(n) == [1..n -> 0..MaxSpectrum]

IdleLambda == frequency = <<>> /\ spectrum = <<>> /\ lambda_omega = <<>>

lambdaVars == <<frequency, spectrum, lambda_omega>>

(* The band-structure texts and the kfpoints inputs.                       *)
Kpoints == {<<0, 0, 0>>, <<1, 0, 0>>}

EnergyRows == UNION {[1..m -> 1..2] : m \in 1..MaxBands}

BandBlocks == [kpoint : Kpoints, energies : EnergyRows]

BandTexts == UNION {[1..n -> BandBlocks] : n \in 1..MaxKpoints}

KfpointsInputs ==
    {NoKfpoints, MissingKfpoints, KfpointsMesh}
        \cup {KfpointsList([i \in 1..n |-> <<i, 0, 0>>]) : n \in 1..MaxKpoints}

IdleBands ==
    /\ bands_content = <<>> /\ kfpoints = NoKfpoints
    /\ bands_parsed = PendingParse /\ bands_data = PendingParse

bandsVars == <<bands_content, kfpoints, bands_parsed, bands_data>>

(* The inputs of a SuperConWorkChain: the interpolation distances in       *)
(* descending order, a threshold of 1 K or none, always_run_final.         *)
SuperConInputs ==
    [interpolation_distance : {[i \in 1..n |-> n + 1 - i] : n \in 1..MaxDistances},
     has_convergence_threshold : BOOLEAN,
     convergence_threshold : {1},
     always_run_final : BOOLEAN]

(* How a sub-process can end.                                              *)
Outcomes == {Node(ok, a) : ok \in BOOLEAN, a \in 0..MaxAllenDynes}

IdleSuperCon ==
    /\ sc_inputs = <<>> /\ strict_predicates = FALSE /\ sc_pc = "idle"
    /\ sc_ctx = <<>> /\ sc_submitted = <<>> /\ sc_exit = Running /\ sc_outputs = {}

superconVars ==
    <<sc_inputs, strict_predicates, sc_pc, sc_ctx, sc_submitted, sc_exit, sc_outputs>>

(* The inputs of an EpwPrepWorkChain that its outline reads: whether the   *)
(* epw_bands namespace and w90_bands.reference_bands are there, and the    *)
(* optimize_disproj of the Wannier90 work chain.                           *)
PrepInputs == [epw_bands : BOOLEAN, reference_bands : BOOLEAN, optimize_disproj : BOOLEAN]

ExitStatuses == 0..MaxExitStatus

PrepContext ==
    [workchain_w90_bands |-> None, workchain_ph |-> None,
     workchain_epw |-> None, workchain_epw_bands |-> None, w90_class_name |-> "",
     parent_folder_chk |-> ""]

IdlePrep ==
    /\ prep_inputs = <<>> /\ prep_pc = "idle" /\ prep_ctx = <<>>
    /\ prep_submitted = <<>> /\ prep_exit = None

prepVars == <<prep_inputs, prep_pc, prep_ctx, prep_submitted, prep_exit>>

(* The input namespaces validate_inputs is called with: any of the grid    *)
(* inputs, among other inputs of EpwBaseWorkChain.                         *)
InputNames ==
    {"kfpoints", "kfpoints_factor", "qfpoints", "qfpoints_distance",
     "structure", "kpoints", "qpoints"}

IdleBase == base_inputs = {} /\ validation = NotValidated

baseVars == <<base_inputs, validation>>

(* The meshes KpointsData.set_kpoints_mesh accepts: three integers, here   *)
(* not negative, and a shift of three floats.                              *)
Meshes == [1..3 -> 0..MaxMesh]
Shifts == {NoShift, <<5, 5, 5>>, <<0, 0, 5>>}
MeshData == {KpointsData(m, sh) : m \in Meshes, sh \in Shifts}

IdleCompat ==
    /\ ck_kpoints = <<>> /\ ck_qpoints = <<>> /\ compatibility = PendingParse

compatVars == <<ck_kpoints, ck_qpoints, compatibility>>

(* The inputs of an EpwBaseWorkChain that validate_kpoints reads: which of *)
(* them are there, the coarse meshes they or their creators hold, whether  *)
(* the Wannier90 parameters have mp_grid, and max_iterations.              *)
GridInputNames ==
    {"parent_folder_epw", "kpoints", "parent_folder_chk", "qpoints",
     "parent_folder_ph", "kfpoints", "qfpoints"}

CubicMeshes == {KpointsData(<<n, n, n>>, sh) : n \in 0..MaxMesh, sh \in {NoShift, <<5, 5, 5>>}}

BaseWorkChainInputs ==
    [names : SUBSET GridInputNames,
     kpoints : CubicMeshes,
     qpoints : {m \in CubicMeshes : m.shift = NoShift},
     mp_grid : BOOLEAN,
     max_iterations : 1..MaxIterations]

(* The exit statuses of an EpwCalculation.                                 *)
CalcExitStatuses == {0, FailureThreshold - 1, FailureThreshold}

BaseContext ==
    [kpoints |-> <<>>, qpoints |-> <<>>, kfpoints |-> "", qfpoints |-> "",
     iteration |-> 0, is_finished |-> FALSE, unhandled_failure |-> FALSE,
     children |-> <<>>]

IdleBaseWorkChain ==
    /\ wc_inputs = <<>> /\ wc_pc = "idle" /\ wc_ctx = <<>>
    /\ wc_reports = <<>> /\ wc_exit = Running

baseWorkChainVars == <<wc_inputs, wc_pc, wc_ctx, wc_reports, wc_exit>>

IdleStdout == stdout = <<>> /\ me_result = PendingParse /\ ps_result = PendingParse

stdoutVars == <<stdout, me_result, ps_result>>

IdleA2f == file_content = <<>> /\ a2f_result = PendingParse

a2fVars == <<file_content, a2f_result>>

adVars == <<lambo, mu_star, omega_log, np_scalars, ad_result>>
tcVars == <<max_eigenvalue, allow_extrapolation, tc_result, iso_tc_node, tc_node>>

(* The variables of the operations added after the four above: all of them *)
(* but those of topic t are at rest, resp. left alone.                     *)
OthersIdle(t) ==
    /\ IF t = "gap" THEN TRUE ELSE IdleGap
    /\ IF t = "plot" THEN TRUE ELSE IdlePlot
    /\ IF t = "lambda" THEN TRUE ELSE IdleLambda
    /\ IF t = "bands" THEN TRUE ELSE IdleBands
    /\ IF t = "supercon" THEN TRUE ELSE IdleSuperCon
    /\ IF t = "prep" THEN TRUE ELSE IdlePrep
    /\ IF t = "base" THEN TRUE ELSE IdleBase
    /\ IF t = "compat" THEN TRUE ELSE IdleCompat
    /\ IF t = "basewc" THEN TRUE ELSE IdleBaseWorkChain

OthersUnchanged(t) ==
    /\ IF t = "gap" THEN TRUE ELSE UNCHANGED gapVars
    /\ IF t = "plot" THEN TRUE ELSE UNCHANGED plotVars
    /\ IF t = "lambda" THEN TRUE ELSE UNCHANGED lambdaVars
    /\ IF t = "bands" THEN TRUE ELSE UNCHANGED bandsVars
    /\ IF t = "supercon" THEN TRUE ELSE UNCHANGED superconVars
    /\ IF t = "prep" THEN TRUE ELSE UNCHANGED prepVars
    /\ IF t = "base" THEN TRUE ELSE UNCHANGED baseVars
    /\ IF t = "compat" THEN TRUE ELSE UNCHANGED compatVars
    /\ IF t = "basewc" THEN TRUE ELSE UNCHANGED baseWorkChainVars

coreVars == <<adVars, tcVars, a2fVars, stdoutVars>>

-----------------------------------------------------------------------------
(* Specification of allen_dynes: any arguments, one call.                  *)

InitAllenDynes ==
    /\ lambo \in Lambdas
    /\ mu_star \in Mus
    /\ omega_log \in Omegas
    /\ np_scalars \in BOOLEAN
    /\ ad_result = Pending
    /\ IdleTc /\ IdleA2f /\ IdleStdout /\ OthersIdle("core")

CallAllenDynes ==
    /\ ad_result = Pending
    /\ ad_result' = allen_dynes(lambo, omega_log, mu_star, np_scalars)
    /\ UNCHANGED <<lambo, mu_star, omega_log, np_scalars, tcVars, a2fVars, stdoutVars>>
    /\ OthersUnchanged("core")

NextAllenDynes == CallAllenDynes

SpecAllenDynes == InitAllenDynes /\ [][NextAllenDynes]_vars

-----------------------------------------------------------------------------
(* Specification of the Tc calculators: any table, on which the three      *)
(* functions are called one after the other (they are pure: the order does *)
(* not change what each returns).                                          *)

InitTc ==
    /\ max_eigenvalue \in Tables
    /\ allow_extrapolation \in BOOLEAN
    /\ tc_result = Pending
    /\ iso_tc_node = Pending
    /\ tc_node = Pending
    /\ IdleAllenDynes /\ IdleA2f /\ IdleStdout /\ OthersIdle("core")

CallCalculateIsoTcInner ==
    /\ tc_result = Pending
    /\ tc_result' = _calculate_iso_tc(max_eigenvalue, allow_extrapolation)
    /\ UNCHANGED <<max_eigenvalue, allow_extrapolation, iso_tc_node, tc_node, adVars, a2fVars, stdoutVars>>
    /\ OthersUnchanged("core")

CallCalculateIsoTc ==
    /\ tc_result # Pending
    /\ iso_tc_node = Pending
    /\ iso_tc_node' = calculate_iso_tc(max_eigenvalue)
    /\ UNCHANGED <<max_eigenvalue, allow_extrapolation, tc_result, tc_node, adVars, a2fVars, stdoutVars>>
    /\ OthersUnchanged("core")

CallCalculateTc ==
    /\ iso_tc_node # Pending
    /\ tc_node = Pending
    /\ tc_node' = calculate_tc(max_eigenvalue)
    /\ UNCHANGED <<max_eigenvalue, allow_extrapolation, tc_result, iso_tc_node, adVars, a2fVars, stdoutVars>>
    /\ OthersUnchanged("core")

NextTc == CallCalculateIsoTcInner \/ CallCalculateIsoTc \/ CallCalculateTc

SpecTc == InitTc /\ [][NextTc]_vars

-----------------------------------------------------------------------------
(* Specification of parse_epw_a2f: any file, one call.                     *)

InitA2f ==
    /\ file_content \in Files
    /\ a2f_result = PendingParse
    /\ IdleAllenDynes /\ IdleTc /\ IdleStdout /\ OthersIdle("core")

CallParseA2f ==
    /\ a2f_result.kind = "pending"
    /\ a2f_result' = parse_epw_a2f(file_content)
    /\ UNCHANGED <<file_content, adVars, tcVars, stdoutVars>>
    /\ OthersUnchanged("core")

NextA2f == CallParseA2f

SpecA2f == InitA2f /\ [][NextA2f]_vars

-----------------------------------------------------------------------------
(* Specification of parse_epw_max_eigenvalue: any text, one call.          *)

InitMaxEigenvalue ==
    /\ stdout \in EigenvalueTexts
    /\ me_result = PendingParse
    /\ ps_result = PendingParse
    /\ IdleAllenDynes /\ IdleTc /\ IdleA2f /\ OthersIdle("core")

CallParseMaxEigenvalue ==
    /\ me_result.kind = "pending"
    /\ me_result' = parse_epw_max_eigenvalue(stdout)
    /\ UNCHANGED <<stdout, ps_result, adVars, tcVars, a2fVars>>
    /\ OthersUnchanged("core")

NextMaxEigenvalue == CallParseMaxEigenvalue

SpecMaxEigenvalue == InitMaxEigenvalue /\ [][NextMaxEigenvalue]_vars

-----------------------------------------------------------------------------
(* Specification of EpwParser.parse_stdout: any text, one call.            *)

InitStdout ==
    /\ stdout \in StdoutTexts
    /\ me_result = PendingParse
    /\ ps_result = PendingParse
    /\ IdleAllenDynes /\ IdleTc /\ IdleA2f /\ OthersIdle("core")

CallParseStdout ==
    /\ ps_result.kind = "pending"
    /\ ps_result' = parse_stdout(stdout)
    /\ UNCHANGED <<stdout, me_result, adVars, tcVars, a2fVars>>
    /\ OthersUnchanged("core")

NextStdout == CallParseStdout

SpecStdout == InitStdout /\ [][NextStdout]_vars

-----------------------------------------------------------------------------
(* Specification of the gap-function parsers: any mapping and prefix, one  *)
(* call of each parser.                                                    *)

InitGap ==
    /\ file_contents \in FileMappings
    /\ prefix \in Prefixes
    /\ iso_result = PendingParse
    /\ aniso_result = PendingParse
    /\ IdleAllenDynes /\ IdleTc /\ IdleA2f /\ IdleStdout /\ OthersIdle("gap")

CallParseImagIso ==
    /\ iso_result.kind = "pending"
    /\ iso_result' = parse_epw_imag_iso(file_contents, prefix)
    /\ UNCHANGED <<file_contents, prefix, aniso_result, coreVars>>
    /\ OthersUnchanged("gap")

CallParseImagAniso ==
    /\ aniso_result.kind = "pending"
    /\ aniso_result' = parse_epw_imag_aniso_gap0(file_contents, prefix)
    /\ UNCHANGED <<file_contents, prefix, iso_result, coreVars>>
    /\ OthersUnchanged("gap")

NextGap == CallParseImagIso \/ CallParseImagAniso

SpecGap == InitGap /\ [][NextGap]_vars

-----------------------------------------------------------------------------
(* Specification of the plot functions: any node, fit and p0, one call of  *)
(* each function.                                                          *)

InitPlot ==
    /\ gap_functions \in GapNodes
    /\ fit \in BOOLEAN
    /\ p0 \in {<<>>, SuppliedGuess}
    /\ iso_fit = PendingFit
    /\ aniso_fit = PendingFit
    /\ IdleAllenDynes /\ IdleTc /\ IdleA2f /\ IdleStdout /\ OthersIdle("plot")

CallGapIsoImagTemp ==
    /\ iso_fit.kind = "pending"
    /\ iso_fit' = gap_iso_imag_temp(gap_functions, fit, p0)
    /\ UNCHANGED <<gap_functions, fit, p0, aniso_fit, coreVars>>
    /\ OthersUnchanged("plot")

CallGapAnisoTemp ==
    /\ aniso_fit.kind = "pending"
    /\ aniso_fit' = gap_aniso_temp(gap_functions, fit, p0)
    /\ UNCHANGED <<gap_functions, fit, p0, iso_fit, coreVars>>
    /\ OthersUnchanged("plot")

NextPlot == CallGapIsoImagTemp \/ CallGapAnisoTemp

SpecPlot == InitPlot /\ [][NextPlot]_vars

-----------------------------------------------------------------------------
(* Specification of calculate_lambda_omega: any spectrum, one call.        *)

InitLambda ==
    /\ frequency \in FrequencyArrays
    /\ spectrum \in SpectrumArrays(Len(frequency))
    /\ lambda_omega = <<>>
    /\ IdleAllenDynes /\ IdleTc /\ IdleA2f /\ IdleStdout /\ OthersIdle("lambda")

CallCalculateLambdaOmega ==
    /\ lambda_omega = <<>>
    /\ lambda_omega' = calculate_lambda_omega(
                           [i \in 1..Len(frequency) |-> Num(frequency[i], 1)],
                           [i \in 1..Len(spectrum) |-> Num(spectrum[i], 10)])
    /\ UNCHANGED <<frequency, spectrum, coreVars>>
    /\ OthersUnchanged("lambda")

NextLambda == CallCalculateLambdaOmega

SpecLambda == InitLambda /\ [][NextLambda]_vars

-----------------------------------------------------------------------------
(* Specification of the band-structure parsers: any text and kfpoints      *)
(* input, one call of each.                                                *)

InitBands ==
    /\ bands_content \in BandTexts
    /\ kfpoints \in KfpointsInputs
    /\ bands_parsed = PendingParse
    /\ bands_data = PendingParse
    /\ IdleAllenDynes /\ IdleTc /\ IdleA2f /\ IdleStdout /\ OthersIdle("bands")

CallParseEpwBands ==
    /\ bands_parsed.kind = "pending"
    /\ bands_parsed' = parse_epw_bands(bands_content)
    /\ UNCHANGED <<bands_content, kfpoints, bands_data, coreVars>>
    /\ OthersUnchanged("bands")

CallParseBands ==
    /\ bands_data.kind = "pending"
    /\ bands_data' = parse_bands(bands_content, kfpoints)
    /\ UNCHANGED <<bands_content, kfpoints, bands_parsed, coreVars>>
    /\ OthersUnchanged("bands")

NextBands == CallParseEpwBands \/ CallParseBands

SpecBands == InitBands /\ [][NextBands]_vars

-----------------------------------------------------------------------------
(* Specification of SuperConWorkChain: one action per step of the outline. *)

InitSuperCon ==
    /\ sc_inputs \in SuperConInputs
    /\ strict_predicates \in BOOLEAN
    /\ sc_pc = "setup"
    /\ sc_ctx = <<>>
    /\ sc_submitted = <<>>
    /\ sc_exit = Running
    /\ sc_outputs = {}
    /\ IdleAllenDynes /\ IdleTc /\ IdleA2f /\ IdleStdout /\ OthersIdle("supercon")

SuperConInputsFrame ==
    UNCHANGED <<sc_inputs, strict_predicates, coreVars>> /\ OthersUnchanged("supercon")

SuperConFrame == SuperConInputsFrame /\ UNCHANGED sc_outputs

Setup ==
    /\ sc_pc = "setup"
    /\ sc_ctx' = setup(sc_inputs)
    /\ sc_pc' = "should_run_conv"
    /\ UNCHANGED <<sc_submitted, sc_exit>>
    /\ SuperConFrame

ShouldRunConv ==
    /\ sc_pc = "should_run_conv"
    /\ LET converged == ConvergedAfterCheck(sc_inputs, sc_ctx)
       IN /\ sc_ctx' = [sc_ctx EXCEPT !.is_converged = converged]
          /\ sc_pc' = IF Len(sc_ctx.interpolation_list) > 0 /\ ~converged
                      THEN "run_conv" ELSE "should_run_final"
    /\ UNCHANGED <<sc_submitted, sc_exit>>
    /\ SuperConFrame

(* run_conv, lines 254-275, up to the end of the sub-process it waits for. *)
RunConv ==
    /\ sc_pc = "run_conv"
    /\ \E node \in Outcomes : sc_ctx' = run_conv(sc_ctx, node)
    /\ sc_submitted' = Append(sc_submitted, "conv")
    /\ sc_pc' = "inspect_conv"
    /\ UNCHANGED sc_exit
    /\ SuperConFrame

(* inspect_conv, lines 277-296.                                            *)
InspectConv ==
    /\ sc_pc = "inspect_conv"
    /\ sc_ctx' = inspect_conv(sc_ctx)
    /\ sc_pc' = "should_run_conv"
    /\ UNCHANGED <<sc_submitted, sc_exit>>
    /\ SuperConFrame

ShouldRunFinal ==
    /\ sc_pc = "should_run_final"
    /\ LET answer == should_run_final(sc_inputs, sc_ctx, strict_predicates)
       IN IF answer = "run"
          THEN sc_pc' = "run_final_epw_iso" /\ sc_exit' = sc_exit
          ELSE sc_pc' = "excepted" /\ sc_exit' = Excepted(answer)
    /\ UNCHANGED <<sc_ctx, sc_submitted>>
    /\ SuperConFrame

(* run_final_epw_iso, lines 310-329: self.ctx.epw_interp[-1] fails when no *)
(* interpolation run was kept.                                             *)
RunFinalEpwIso ==
    /\ sc_pc = "run_final_epw_iso"
    /\ IF sc_ctx.epw_interp = <<>>
       THEN /\ sc_pc' = "excepted"
            /\ sc_exit' = Excepted(IF sc_ctx.iteration = 0
                                   THEN "AttributeError" ELSE "IndexError")
            /\ UNCHANGED <<sc_ctx, sc_submitted>>
       ELSE /\ \E node \in Outcomes : sc_ctx' = [sc_ctx EXCEPT !.final_epw_iso = node]
            /\ sc_submitted' = Append(sc_submitted, "epw_final_iso")
            /\ sc_pc' = "inspect_final_epw_iso"
            /\ UNCHANGED sc_exit
    /\ SuperConFrame

InspectFinalEpwIso ==
    /\ sc_pc = "inspect_final_epw_iso"
    /\ LET exit_code == inspect_final_epw_iso(sc_ctx)
       IN IF exit_code # None
          THEN sc_pc' = "finished" /\ sc_exit' = Finished(exit_code)
          ELSE sc_pc' = "run_final_epw_aniso" /\ sc_exit' = sc_exit
    /\ UNCHANGED <<sc_ctx, sc_submitted>>
    /\ SuperConFrame

RunFinalEpwAniso ==
    /\ sc_pc = "run_final_epw_aniso"
    /\ \E node \in Outcomes : sc_ctx' = [sc_ctx EXCEPT !.final_epw_aniso = node]
    /\ sc_submitted' = Append(sc_submitted, "epw_final_aniso")
    /\ sc_pc' = "inspect_final_epw_aniso"
    /\ UNCHANGED sc_exit
    /\ SuperConFrame

InspectFinalEpwAniso ==
    /\ sc_pc = "inspect_final_epw_aniso"
    /\ LET exit_code == inspect_final_epw_aniso(sc_ctx)
       IN IF exit_code # None
          THEN sc_pc' = "finished" /\ sc_exit' = Finished(exit_code)
          ELSE sc_pc' = "results" /\ sc_exit' = sc_exit
    /\ UNCHANGED <<sc_ctx, sc_submitted>>
    /\ SuperConFrame

(* results, lines 365-370.                                                 *)
Results ==
    /\ sc_pc = "results"
    /\ sc_pc' = "finished"
    /\ sc_exit' = Finished(0)
    /\ sc_outputs' = results
    /\ UNCHANGED <<sc_ctx, sc_submitted>>
    /\ SuperConInputsFrame

NextSuperCon ==
    \/ Setup \/ ShouldRunConv \/ RunConv \/ InspectConv \/ ShouldRunFinal
    \/ RunFinalEpwIso \/ InspectFinalEpwIso \/ RunFinalEpwAniso
    \/ InspectFinalEpwAniso \/ Results

SpecSuperCon == InitSuperCon /\ [][NextSuperCon]_vars

(* The engine runs the next step of a work chain that has not ended.       *)
SpecSuperConFair == SpecSuperCon /\ WF_vars(NextSuperCon)

-----------------------------------------------------------------------------
(* Specification of EpwPrepWorkChain: one action per step of the outline.  *)
(* A run step submits a sub-process and the work chain waits for it, so    *)
(* the next step sees its exit status.                                     *)

InitPrep ==
    /\ prep_inputs \in PrepInputs
    /\ prep_pc = "generate_reciprocal_points"
    /\ prep_ctx = PrepContext
    /\ prep_submitted = <<>>
    /\ prep_exit = None
    /\ IdleAllenDynes /\ IdleTc /\ IdleA2f /\ IdleStdout /\ OthersIdle("prep")

PrepFrame == UNCHANGED <<prep_inputs, coreVars>> /\ OthersUnchanged("prep")

(* The engine after an inspect step: an exit code ends the work chain.     *)
AfterInspect(exit_code, next) ==
    /\ IF exit_code # None
       THEN prep_pc' = "finished" /\ prep_exit' = exit_code
       ELSE prep_pc' = next /\ prep_exit' = prep_exit
    /\ UNCHANGED <<prep_ctx, prep_submitted>>
    /\ PrepFrame

GenerateReciprocalPoints ==
    /\ prep_pc = "generate_reciprocal_points"
    /\ prep_pc' = "run_wannier90"
    /\ UNCHANGED <<prep_ctx, prep_submitted, prep_exit>>
    /\ PrepFrame

RunWannier90 ==
    /\ prep_pc = "run_wannier90"
    /\ \E status \in ExitStatuses :
          prep_ctx' = [prep_ctx EXCEPT
                          !.w90_class_name = IF prep_inputs.reference_bands
                                             THEN "Wannier90OptimizeWorkChain"
                                             ELSE "Wannier90BandsWorkChain",
                          !.workchain_w90_bands = status]
    /\ prep_submitted' = Append(prep_submitted, "w90_bands")
    /\ prep_pc' = "inspect_wannier90"
    /\ UNCHANGED prep_exit
    /\ PrepFrame

InspectWannier90 ==
    /\ prep_pc = "inspect_wannier90"
    /\ AfterInspect(inspect_wannier90(prep_ctx), "run_ph")

RunPh ==
    /\ prep_pc = "run_ph"
    /\ \E status \in ExitStatuses : prep_ctx' = [prep_ctx EXCEPT !.workchain_ph = status]
    /\ prep_submitted' = Append(prep_submitted, "ph_base")
    /\ prep_pc' = "inspect_ph"
    /\ UNCHANGED prep_exit
    /\ PrepFrame

InspectPh ==
    /\ prep_pc = "inspect_ph"
    /\ AfterInspect(inspect_ph(prep_ctx), "run_epw")

RunEpw ==
    /\ prep_pc = "run_epw"
    /\ \E status \in ExitStatuses :
          prep_ctx' = [prep_ctx EXCEPT
                          !.parent_folder_chk = parent_folder_chk(prep_inputs, prep_ctx),
                          !.workchain_epw = status]
    /\ prep_submitted' = Append(prep_submitted, "epw_base")
    /\ prep_pc' = "inspect_epw"
    /\ UNCHANGED prep_exit
    /\ PrepFrame

InspectEpw ==
    /\ prep_pc = "inspect_epw"
    /\ AfterInspect(inspect_epw(prep_ctx), "should_run_epw_bands")

ShouldRunEpwBands ==
    /\ prep_pc = "should_run_epw_bands"
    /\ prep_pc' = IF should_run_epw_bands(prep_inputs) THEN "run_epw_bands" ELSE "results"
    /\ UNCHANGED <<prep_ctx, prep_submitted, prep_exit>>
    /\ PrepFrame

RunEpwBands ==
    /\ prep_pc = "run_epw_bands"
    /\ \E status \in ExitStatuses :
          prep_ctx' = [prep_ctx EXCEPT !.workchain_epw_bands = status]
    /\ prep_submitted' = Append(prep_submitted, "epw_bands")
    /\ prep_pc' = "inspect_epw_bands"
    /\ UNCHANGED prep_exit
    /\ PrepFrame

InspectEpwBands ==
    /\ prep_pc = "inspect_epw_bands"
    /\ AfterInspect(inspect_epw_bands(prep_ctx), "results")

PrepResults ==
    /\ prep_pc = "results"
    /\ prep_pc' = "finished"
    /\ prep_exit' = 0
    /\ UNCHANGED <<prep_ctx, prep_submitted>>
    /\ PrepFrame

NextPrep ==
    \/ GenerateReciprocalPoints \/ RunWannier90 \/ InspectWannier90
    \/ RunPh \/ InspectPh \/ RunEpw \/ InspectEpw \/ ShouldRunEpwBands
    \/ RunEpwBands \/ InspectEpwBands \/ PrepResults

SpecPrep == InitPrep /\ [][NextPrep]_vars

-----------------------------------------------------------------------------
(* Specification of validate_inputs: every namespace, one call.            *)

InitBase ==
    /\ base_inputs \in SUBSET InputNames
    /\ validation = NotValidated
    /\ IdleAllenDynes /\ IdleTc /\ IdleA2f /\ IdleStdout /\ OthersIdle("base")

CallValidateInputs ==
    /\ validation = NotValidated
    /\ validation' = validate_inputs(base_inputs)
    /\ UNCHANGED <<base_inputs, coreVars>>
    /\ OthersUnchanged("base")

NextBase == CallValidateInputs

SpecBase == InitBase /\ [][NextBase]_vars

-----------------------------------------------------------------------------
(* Specification of check_kpoints_qpoints_compatibility: any two meshes,   *)
(* one call.                                                               *)

InitCompat ==
    /\ ck_kpoints \in MeshData
    /\ ck_qpoints \in MeshData
    /\ compatibility = PendingParse
    /\ IdleAllenDynes /\ IdleTc /\ IdleA2f /\ IdleStdout /\ OthersIdle("compat")

CallCheckCompatibility ==
    /\ compatibility = PendingParse
    /\ compatibility' = check_kpoints_qpoints_compatibility(ck_kpoints, ck_qpoints)
    /\ UNCHANGED <<ck_kpoints, ck_qpoints, coreVars>>
    /\ OthersUnchanged("compat")

NextCompat == CallCheckCompatibility

SpecCompat == InitCompat /\ [][NextCompat]_vars

-----------------------------------------------------------------------------
(* Specification of EpwBaseWorkChain: one action per step of the outline.  *)

InitBaseWorkChain ==
    /\ wc_inputs \in BaseWorkChainInputs
    /\ wc_pc = "setup"
    /\ wc_ctx = <<>>
    /\ wc_reports = <<>>
    /\ wc_exit = Running
    /\ IdleAllenDynes /\ IdleTc /\ IdleA2f /\ IdleStdout /\ OthersIdle("basewc")

BaseWorkChainFrame == UNCHANGED <<wc_inputs, coreVars>> /\ OthersUnchanged("basewc")

(* The engine after a step: an exception or an exit code ends the work     *)
(* chain, otherwise the outline goes on.                                   *)
AfterStep(result, next) ==
    /\ wc_ctx' = result.ctx
    /\ IF result.exception # ""
       THEN wc_pc' = "excepted" /\ wc_exit' = Excepted(result.exception)
       ELSE IF result.exit_code # None
       THEN wc_pc' = "finished" /\ wc_exit' = Finished(result.exit_code)
       ELSE wc_pc' = next /\ wc_exit' = wc_exit

(* setup, lines 242-289.                                                   *)
BaseSetup ==
    /\ wc_pc = "setup"
    /\ wc_ctx' = BaseContext
    /\ wc_pc' = "validate_kpoints"
    /\ UNCHANGED <<wc_reports, wc_exit>>
    /\ BaseWorkChainFrame

ValidateKpoints ==
    /\ wc_pc = "validate_kpoints"
    /\ AfterStep(validate_kpoints(wc_inputs, wc_ctx), "should_run_process")
    /\ UNCHANGED wc_reports
    /\ BaseWorkChainFrame

ShouldRunProcess ==
    /\ wc_pc = "should_run_process"
    /\ wc_pc' = IF ~wc_ctx.is_finished /\ wc_ctx.iteration < wc_inputs.max_iterations
                THEN "prepare_process" ELSE "results"
    /\ UNCHANGED <<wc_ctx, wc_reports, wc_exit>>
    /\ BaseWorkChainFrame

(* prepare_process, lines 375-382.                                         *)
PrepareProcess ==
    /\ wc_pc = "prepare_process"
    /\ wc_pc' = "run_process"
    /\ UNCHANGED <<wc_ctx, wc_reports, wc_exit>>
    /\ BaseWorkChainFrame

(* run_process, up to the end of the EpwCalculation it waits for.          *)
RunProcess ==
    /\ wc_pc = "run_process"
    /\ \E status \in CalcExitStatuses :
          wc_ctx' = [wc_ctx EXCEPT !.iteration = @ + 1,
                                   !.children = Append(@, [exit_status |-> status])]
    /\ wc_pc' = "inspect_process"
    /\ UNCHANGED <<wc_reports, wc_exit>>
    /\ BaseWorkChainFrame

InspectProcess ==
    /\ wc_pc = "inspect_process"
    /\ AfterStep(inspect_process(wc_ctx), "should_run_process")
    /\ wc_reports' = Append(wc_reports, handle_unrecoverable_failure(Last(wc_ctx.children)))
    /\ BaseWorkChainFrame

BaseResults ==
    /\ wc_pc = "results"
    /\ wc_pc' = "finished"
    /\ wc_exit' = IF ~wc_ctx.is_finished /\ wc_ctx.iteration >= wc_inputs.max_iterations
                  THEN Finished(ERROR_MAXIMUM_ITERATIONS_EXCEEDED) ELSE Finished(0)
    /\ UNCHANGED <<wc_ctx, wc_reports>>
    /\ BaseWorkChainFrame

NextBaseWorkChain ==
    \/ BaseSetup \/ ValidateKpoints \/ ShouldRunProcess \/ PrepareProcess
    \/ RunProcess \/ InspectProcess \/ BaseResults

SpecBaseWorkChain == InitBaseWorkChain /\ [][NextBaseWorkChain]_vars

-----------------------------------------------------------------------------
(* Properties of the calculators.                                          *)

Temp(i) == max_eigenvalue[i][1]
Eig(i) == max_eigenvalue[i][2]
RowIds == 1..Len(max_eigenvalue)

(* The temperature at which the straight line through rows a and b, of     *)
(* different eigenvalues, takes the eigenvalue 1.0.                        *)
LineAtOne(a, b) ==
    Num(Temp(a) * (Eig(b) - Eig(a)) + (Temp(b) - Temp(a)) * (One - Eig(a)),
        Eig(b) - Eig(a))

(* The eigenvalue is a strictly monotonic function of the temperature.     *)
StrictlyMonotonic ==
    /\ \A i, j \in RowIds : Temp(i) = Temp(j) => i = j
    /\ \/ \A i, j \in RowIds : Temp(i) < Temp(j) => Eig(i) < Eig(j)
       \/ \A i, j \in RowIds : Temp(i) < Temp(j) => Eig(i) > Eig(j)

Brackets ==
    /\ \E i \in RowIds : Eig(i) <= One
    /\ \E i \in RowIds : Eig(i) >= One

(* r is the linear interpolation between two rows adjacent in temperature  *)
(* whose eigenvalues enclose 1.0.                                          *)
InterpolatedBetweenAdjacentRows(r) ==
    \E a, b \in RowIds :
        /\ Eig(a) <= One /\ One <= Eig(b) /\ Eig(a) < Eig(b)
        /\ ~ \E c \in RowIds :
                \/ Temp(a) < Temp(c) /\ Temp(c) < Temp(b)
                \/ Temp(b) < Temp(c) /\ Temp(c) < Temp(a)
        /\ r = LineAtOne(a, b)

(* Rows a and b are the two rows of smallest eigenvalue: a is below b and  *)
(* b is below every other row.                                             *)
TwoBoundaryRows(a, b) ==
    /\ a # b /\ Eig(a) < Eig(b)
    /\ \A c \in RowIds \ {a, b} : Eig(c) > Eig(b)

HasBoundaryRows == \E a, b \in RowIds : TwoBoundaryRows(a, b)

ExtrapolatedThroughBoundaryRows(r) ==
    \E a, b \in RowIds : TwoBoundaryRows(a, b) /\ r = LineAtOne(a, b)

(* C1 (as claimed): allen_dynes returns 0 whenever                          *)
(* lambda <= mu*(1 + 0.62 lambda), the equality included, and a strictly    *)
(* positive value otherwise.                                               *)
C1_ZeroIffNotAbove ==
    ad_result # Pending =>
        IF 10000 * lambo <= mu_star * (10000 + 62 * lambo)
        THEN ad_result = Zero
        ELSE ad_result.kind = "positive"

(* C2: a table whose eigenvalues are all below 1.0 gives exactly 0.0,       *)
(* whatever allow_extrapolation is.                                        *)
C2_AllBelowGivesZero ==
    (tc_result # Pending /\ \A i \in RowIds : Eig(i) < One) => tc_result = Zero

C2_Witness ==
    /\ tc_result = Zero
    /\ allow_extrapolation
    /\ Len(max_eigenvalue) >= 2
    /\ \A i \in RowIds : Eig(i) < One

C4_InterpolatesAtCrossing ==
    /\ (tc_result # Pending /\ Len(max_eigenvalue) >= 2
            /\ Brackets /\ StrictlyMonotonic)
           => InterpolatedBetweenAdjacentRows(tc_result)
    /\ (tc_result # Pending /\ max_eigenvalue = <<(<<1, 4>>), (<<2, 6>>)>>)
           => tc_result = Num(3, 2)

C4_Witness ==
    /\ Len(max_eigenvalue) = 3
    /\ Brackets /\ StrictlyMonotonic
    /\ \A i \in RowIds : Eig(i) # One
    /\ \A i, j \in RowIds : Temp(i) < Temp(j) => Eig(i) > Eig(j)
    /\ tc_result.kind = "num"
    /\ tc_result.d # 1

(* C5 (as claimed): supercon.calculate_tc returns the fallback 40.0 only    *)
(* when the minimum eigenvalue never drops below 1.0, and the interpolated  *)
(* temperature for a table that brackets 1.0.                               *)
C5_FallbackOnlyNeverBelow ==
    tc_node # Pending =>
        /\ tc_node = Num(FallbackTc, 1) => \A i \in RowIds : Eig(i) >= One
        /\ (Len(max_eigenvalue) >= 2 /\ Brackets /\ StrictlyMonotonic)
               => InterpolatedBetweenAdjacentRows(tc_node)

(* C14 (as claimed): on a malformed max-eigenvalue table, here a table of  *)
(* a single row, _calculate_iso_tc, calculate_iso_tc and                   *)
(* supercon.calculate_tc fail by raising; none returns a default Tc.       *)
C14_SingleRowRaises ==
    Len(max_eigenvalue) = 1 =>
        \A result \in {tc_result, iso_tc_node, tc_node} :
            result # Pending => result.kind = "raise"

-----------------------------------------------------------------------------
(* Properties of parse_epw_a2f.                                            *)

A2fKeys == {"frequency", "a2f", "lambda", "phonon_smearing",
            "electron_smearing", "fermi_window", "summed_elph_coupling"}

StartsWithMarker(line) == line # <<>> /\ line[1] = MarkerTok

(* The file has no marker line preceded by a newline.                      *)
LacksMarker == \A i \in 2..Len(file_content) : ~StartsWithMarker(file_content[i])

(* Two lines of the numeric table, the lines before the first marker line, *)
(* have different numbers of columns.                                      *)
RaggedTable ==
    \E m \in 2..Len(file_content) :
        /\ StartsWithMarker(file_content[m])
        /\ \A i \in 2..(m - 1) : ~StartsWithMarker(file_content[i])
        /\ \E i, j \in 1..(m - 1) : Len(file_content[i]) # Len(file_content[j])

(* C6 (as claimed): a call of parse_epw_a2f that returns returns all seven  *)
(* documented keys; a footer without one of the scalar label lines makes    *)
(* the parse fail.                                                          *)
C6_AllKeysOrFailure ==
    a2f_result.kind = "ok" => DOMAIN a2f_result.data = A2fKeys

(* C7 (as claimed): for every file that parse_epw_a2f parses, frequency has *)
(* as many entries as a2f has rows, and lambda and phonon_smearing have as  *)
(* many entries as a2f has columns.                                         *)
C7_SplitShapes ==
    a2f_result.kind = "ok" =>
        LET d == a2f_result.data
        IN /\ Len(d["frequency"]) = Len(d["a2f"])
           /\ Len(d["lambda"]) = Len(d["phonon_smearing"])
           /\ \A i \in 1..Len(d["a2f"]) : Len(d["a2f"][i]) = Len(d["lambda"])

(* C8: parse_epw_a2f raises, and so returns nothing, when the input lacks   *)
(* the marker line preceded by a newline and when a row of the numeric      *)
(* table has a column count different from the other rows.                  *)
C8_MalformedRaises ==
    (a2f_result.kind # "pending" /\ (LacksMarker \/ RaggedTable))
        => a2f_result.kind = "raise" /\ a2f_result.data = <<>>

C8_Witness ==
    /\ a2f_result.kind = "raise"
    /\ Cardinality(MarkerLines(file_content)) = 1
    /\ RaggedTable
    /\ Len(file_content) >= 7
    /\ \E i \in 1..2 : Len(file_content[i]) = MaxCols
    /\ \A i \in 1..2 : /\ Len(file_content[i]) >= 2
                       /\ \A j \in 1..Len(file_content[i]) : file_content[i][j] \in NumTokens

-----------------------------------------------------------------------------
(* Properties of the stdout parsers.                                       *)

(* The tokens of the whole text, and the place of the first marker in it   *)
(* (past the end if there is none).                                        *)
AllItems == Flatten(WholeText(stdout), 1)

FirstMarker ==
    SetMin({p \in 1..Len(AllItems) : AllItems[p].tok = FinishTok}
           \cup {Len(AllItems) + 1})

(* The matches of the pattern in the whole text that lie before the first  *)
(* marker, in the order of the text, each reduced to its first two fields. *)
RowsBeforeMarker ==
    LET found == FindAll(AllItems, 1, FALSE)
        before == SelectSeq(found, LAMBDA p : p < FirstMarker)
    IN [k \in 1..Len(before) |->
           <<FloatOf(AllItems[before[k]].tok), FloatOf(AllItems[before[k] + 1].tok)>>]

(* C9: parse_epw_max_eigenvalue returns exactly the rows that match the     *)
(* 5-field pattern and lie before the first marker, in file order, each     *)
(* reduced to (temperature, eigenvalue); no row after the marker appears.   *)
C9_RowsBeforeMarker ==
    me_result.kind = "ok" =>
        /\ DOMAIN me_result.data = {"max_eigenvalue"}
        /\ me_result.data["max_eigenvalue"] = RowsBeforeMarker

C9_Witness ==
    /\ me_result.kind = "ok"
    /\ FirstMarker <= Len(AllItems)
    /\ Len(me_result.data["max_eigenvalue"]) = 1
    /\ LET found == FindAll(AllItems, 1, FALSE)
       IN /\ Len(found) = 2
          /\ found[2] > FirstMarker
          /\ Groups(AllItems, found[1]) # Groups(AllItems, found[2])

(* The lines of stdout that match the pattern of a scalar field.           *)
MatchingLines(entry) ==
    {i \in 1..Len(stdout) : Search(entry, stdout[i]) # {}}

ValueOfLine(entry, i) ==
    FloatOf(stdout[i].toks[SetMin(Search(entry, stdout[i])) + 1])

(* C10: each scalar field of parse_stdout holds the coerced value of the    *)
(* last line that matches its pattern, and is absent when no line matches.  *)
C10_LastMatchWins ==
    ps_result.kind = "ok" =>
        \A k \in 1..Len(data_type_regex) :
            LET entry == data_type_regex[k]
                lines == MatchingLines(entry)
            IN IF lines = {}
               THEN entry.key \notin DOMAIN ps_result.data
               ELSE /\ entry.key \in DOMAIN ps_result.data
                    /\ ps_result.data[entry.key] = ValueOfLine(entry, SetMax(lines))

C10_Witness ==
    /\ ps_result.kind = "ok"
    /\ Cardinality(MatchingLines(data_type_regex[1])) >= 3
    /\ ValueOfLine(data_type_regex[1], SetMin(MatchingLines(data_type_regex[1])))
         # ps_result.data["allen_dynes"]
    /\ "fermi_energy_coarse" \notin DOMAIN ps_result.data

-----------------------------------------------------------------------------
(* Properties of the gap-function parsers.                                 *)

FileIds == 1..Len(file_contents)

Accepted(tag) == {i \in FileIds : PatternMatch(prefix, tag, file_contents[i][1])}

Keys(result) == [k \in 1..Len(result.data) |-> result.data[k][1]]

(* What a call may do with filenames that do not match: if it raises, a    *)
(* matching file has a content loadtxt rejects; if it returns, every entry *)
(* is the temperature and the loaded content of a matching file.           *)
SkipsNonMatching(result, tag) ==
    /\ result.kind = "raise" =>
          \E i \in Accepted(tag) : LoadTxt(file_contents[i][2]).kind = "raise"
    /\ result.kind = "ok" =>
          /\ \A k \in 1..Len(result.data) :
                \E i \in Accepted(tag) :
                    /\ result.data[k][1] = TemperatureOf(file_contents[i][1].temp)
                    /\ result.data[k][2] = LoadTxt(file_contents[i][2]).data
          /\ \A i \in Accepted(tag) :
                \E k \in 1..Len(result.data) :
                    result.data[k][1] = TemperatureOf(file_contents[i][1].temp)

NotesTxt == FileName(<<"n", "o", "t", "e", "s">>, ".", "txt", "", "")
PlainText == << <<"w">>, <<"0.5", "x">> >>
ValidTable == << <<"w">>, <<"0.5", "1.5">>, <<"1.5", "0.5">> >>

(* The mapping {aiida.imag_iso_010.00: valid table, notes.txt: text}, in   *)
(* one of its two orders, parsed with the prefix aiida.                    *)
NotesScenario ==
    /\ prefix = Aiida
    /\ Len(file_contents) = 2
    /\ Range(file_contents) =
          { <<FileName(Aiida, ".", IsoTag, "010.00", ""), ValidTable>>,
            <<NotesTxt, PlainText>> }

(* C11: the batch parsers never raise because of a filename that does not   *)
(* match: the entry is omitted and its content is not parsed; the mapping   *)
(* of aiida.imag_iso_010.00 and notes.txt yields one entry, keyed 10.0.     *)
C11_NonMatchingSkipped ==
    /\ SkipsNonMatching(iso_result, IsoTag)
    /\ SkipsNonMatching(aniso_result, AnisoTag)
    /\ (NotesScenario /\ iso_result.kind # "pending") =>
          /\ iso_result.kind = "ok"
          /\ Keys(iso_result) = <<100>>
    /\ (NotesScenario /\ aniso_result.kind # "pending") =>
          aniso_result = Parsed(<<>>)

C11_Witness ==
    /\ NotesScenario
    /\ file_contents[1][1] = NotesTxt
    /\ LoadTxt(file_contents[1][2]).kind = "raise"
    /\ iso_result = Parsed(<< <<100, [ndim |-> 2, rows |-> <<<<5, 15>>, <<15, 5>>>>]>> >>)

(* The filenames that are literally prefix + "." + tag + DDD.DD.           *)
LiterallyNamed(tag) ==
    {i \in FileIds :
        LET name == file_contents[i][1]
        IN /\ name.stem = prefix
           /\ name.sep = "."
           /\ name.tag = tag
           /\ name.temp \in TemperatureTexts
           /\ name.trail = ""}

(* The temperatures of the files of a set, in the order of the mapping.    *)
TemperaturesOf(ids) ==
    LET kept == SelectSeq([i \in FileIds |-> i], LAMBDA i : i \in ids)
    IN [k \in 1..Len(kept) |-> TemperatureOf(file_contents[kept[k]][1].temp)]

(* C12 (as claimed): a filename is accepted iff it is literally prefix,     *)
(* ".imag_iso_" (resp. ".imag_aniso_gap0_"), three digits, ".", two digits, *)
(* for every prefix; the result has exactly one entry per accepted          *)
(* filename, keyed by the value of DDD.DD.                                  *)
C12_LiteralPattern ==
    /\ iso_result.kind = "ok" =>
          Keys(iso_result) = TemperaturesOf(LiterallyNamed(IsoTag))
    /\ aniso_result.kind = "ok" =>
          Keys(aniso_result) = TemperaturesOf(LiterallyNamed(AnisoTag))

(* C13 (as claimed): the mapping returned by either parser iterates its     *)
(* keys in ascending temperature order, whatever the order of the input.    *)
C13_AscendingKeys ==
    \A result \in {iso_result, aniso_result} :
        result.kind = "ok" =>
            \A k \in 1..(Len(result.data) - 1) :
                result.data[k][1] < result.data[k + 1][1]

-----------------------------------------------------------------------------
(* Properties of the plot functions.                                       *)

(* The series gap_iso_imag_temp plots, and the one gap_aniso_temp plots.   *)
IsoSeries == ImagLists(gap_functions, 1)

AnisoSeries ==
    LET dict_files == DictFiles(gap_functions, Len(gap_functions))
    IN [k \in 1..Len(dict_files) |-> <<dict_files[k][1], Average(dict_files[k][2])>>]

(* (T_max, 3.3, Delta(T_min)) of a series of (temperature, gap) pairs.     *)
IsGuessOf(guess, series) ==
    \E hi, lo \in 1..Len(series) :
        /\ \A k \in 1..Len(series) : series[lo][1] <= series[k][1]
        /\ \A k \in 1..Len(series) : series[k][1] <= series[hi][1]
        /\ guess = <<series[hi][1], DefaultExponent, series[lo][2]>>

(* C15 (as claimed): when a fit is requested and no p0 is supplied,         *)
(* gap_iso_imag_temp and gap_aniso_temp start the fit from (T_max, 3.3,     *)
(* Delta(T_min)), for every order in which the arrays are iterated.         *)
C15_DefaultGuess ==
    (fit /\ p0 = <<>>) =>
        /\ iso_fit.kind = "fit" => IsGuessOf(iso_fit.p0, IsoSeries)
        /\ aniso_fit.kind = "fit" => IsGuessOf(aniso_fit.p0, AnisoSeries)

-----------------------------------------------------------------------------
(* Properties of calculate_lambda_omega.                                   *)

(* The sum over i >= k of (s_i/w_i + s_(i+1)/w_(i+1)) * (w_(i+1) - w_i),   *)
(* as the fraction <<numerator, denominator>> over the common denominator  *)
(* 10 * w_1 * ... * w_n.                                                   *)
RECURSIVE ProductOfFrequencies(_)
ProductOfFrequencies(i) ==
    IF i > Len(frequency) THEN 1 ELSE frequency[i] * ProductOfFrequencies(i + 1)

CommonDenominator == 10 * ProductOfFrequencies(1)

RECURSIVE ClaimedNumerator(_)
ClaimedNumerator(k) ==
    IF k >= Len(frequency) THEN 0
    ELSE (spectrum[k] * (CommonDenominator \div (10 * frequency[k]))
          + spectrum[k + 1] * (CommonDenominator \div (10 * frequency[k + 1])))
         * (frequency[k + 1] - frequency[k])
         + ClaimedNumerator(k + 1)

(* C16: for strictly positive increasing frequencies and a spectrum of the  *)
(* same length, lambda is twice the trapezoidal integral of                 *)
(* spectrum/frequency: the sum of (s_i/w_i + s_(i+1)/w_(i+1))*(w_(i+1)-w_i); *)
(* for [1,2,3] and [0.1,0.2,0.1] it is 1/3.                                 *)
C16_TwiceTrapezoid ==
    lambda_omega # <<>> =>
        /\ lambda_omega[1].kind = "num"
        /\ lambda_omega[1].n * CommonDenominator = ClaimedNumerator(1) * lambda_omega[1].d
        /\ (frequency = <<1, 2, 3>> /\ spectrum = <<1, 2, 1>>) =>
              lambda_omega[1] = Num(1, 3)

C16_Witness ==
    /\ frequency = <<1, 2, 3>>
    /\ spectrum = <<1, 2, 1>>
    /\ lambda_omega # <<>>
    /\ lambda_omega[1] = Num(1, 3)

-----------------------------------------------------------------------------
(* Properties of the band-structure parsers.                               *)

-----------------------------------------------------------------------------
(* Properties of SuperConWorkChain.                                        *)

FinalSubmitted ==
    \E k \in 1..Len(sc_submitted) : sc_submitted[k] \in {"epw_final_iso", "epw_final_aniso"}

MayRunFinal == sc_ctx.is_converged \/ sc_inputs.always_run_final

(* C18 (as claimed): the final isotropic and anisotropic work chains are    *)
(* submitted only if the Allen-Dynes Tc is converged or always_run_final is *)
(* true; if neither holds when the convergence loop ends, the work chain    *)
(* finishes with exit code 402 and submits no final work chain.             *)
C18_FinalOnlyIfConverged ==
    /\ FinalSubmitted => MayRunFinal
    /\ (sc_pc \in {"finished", "excepted"} /\ ~MayRunFinal) =>
          /\ sc_exit = Finished(ERROR_ALLEN_DYNES_NOT_CONVERGED)
          /\ ~FinalSubmitted

-----------------------------------------------------------------------------
(* Properties of EpwPrepWorkChain.                                         *)

SubProcessOrder == <<"w90_bands", "ph_base", "epw_base", "epw_bands">>

(* The exit status of the k-th sub-process in that order, and the exit     *)
(* code the work chain is to end with when it failed.                      *)
StatusOf(k) ==
    <<prep_ctx.workchain_w90_bands, prep_ctx.workchain_ph,
      prep_ctx.workchain_epw, prep_ctx.workchain_epw_bands>>[k]

ExitCodeOf(k) == <<404, 403, 405, 406>>[k]

Failed(k) == StatusOf(k) # None /\ StatusOf(k) # 0

(* C19: the sub-processes are submitted in the order Wannier90, PhBase,     *)
(* EpwBase, optional EpwBase for bands, each at most once and only after    *)
(* the one before finished ok; when one does not finish ok, the next step   *)
(* ends the work chain with 404, 403, 405 or 406 respectively, and no later *)
(* sub-process is ever submitted.                                           *)
C19_OrderedSubProcesses ==
    LET n == Len(prep_submitted)
    IN /\ n <= 4
       /\ prep_submitted = SubSeq(SubProcessOrder, 1, n)
       /\ n = 4 => prep_inputs.epw_bands
       /\ \A k \in 1..4 : StatusOf(k) # None <=> k <= n
       /\ \A k \in 2..n : StatusOf(k - 1) = 0
       /\ \A k \in 1..n :
             Failed(k) =>
                /\ n = k
                /\ prep_pc \in {"finished",
                                 <<"inspect_wannier90", "inspect_ph",
                                   "inspect_epw", "inspect_epw_bands">>[k]}
                /\ prep_pc = "finished" => prep_exit = ExitCodeOf(k)
       /\ prep_exit \in {404, 403, 405, 406} =>
             \E k \in 1..n : Failed(k) /\ prep_exit = ExitCodeOf(k)

(* The PhBaseWorkChain failed after a good Wannier90 run, and the work     *)
(* chain has ended with 403 after two submissions.                         *)
C19_Witness ==
    /\ prep_pc = "finished"
    /\ prep_exit = 403
    /\ prep_submitted = <<"w90_bands", "ph_base">>
    /\ prep_ctx.workchain_w90_bands = 0
    /\ prep_ctx.workchain_ph = MaxExitStatus
    /\ prep_inputs.epw_bands

-----------------------------------------------------------------------------
(* Properties of validate_inputs.                                          *)

ExactlyOne(a, b) == (a \in base_inputs) # (b \in base_inputs)

KGridMessages ==
    {"Can only specify one of the kfpoints, kfpoints_factor.",
     "Either kfpoints or kfpoints_factor must be specified."}

QGridMessages ==
    {"Can only specify one of the qfpoints, qfpoints_distance.",
     "Either qfpoints or qfpoints_distance must be specified."}

(* C20: validate_inputs returns None exactly when exactly one of kfpoints,  *)
(* kfpoints_factor and exactly one of qfpoints, qfpoints_distance is in the *)
(* inputs; otherwise it returns a message, the one about the k grid when    *)
(* the k grid is wrong, whatever the q grid.                                *)
C20_ExactlyOneOfEach ==
    validation # NotValidated =>
        LET k_ok == ExactlyOne("kfpoints", "kfpoints_factor")
            q_ok == ExactlyOne("qfpoints", "qfpoints_distance")
        IN /\ validation = "None" <=> (k_ok /\ q_ok)
           /\ ~k_ok => validation \in KGridMessages
           /\ (k_ok /\ ~q_ok) => validation \in QGridMessages

(* Both grids are wrong, and the message is the one of the k grid.         *)
C20_Witness ==
    /\ {"kfpoints", "kfpoints_factor"} \subseteq base_inputs
    /\ ~any({"qfpoints", "qfpoints_distance"}, base_inputs)
    /\ validation = "Can only specify one of the kfpoints, kfpoints_factor."

-----------------------------------------------------------------------------
(* Properties of check_kpoints_qpoints_compatibility.                      *)

IsMultiple(k, q) == \E m \in 0..MaxMesh : k = m * q

(* C21 (as claimed): the call returns (True, message) exactly when both    *)
(* shifts are zero and every dimension of the k mesh is an integer         *)
(* multiple of that of the q mesh, and (False, message) for every other    *)
(* pair of meshes.                                                         *)
C21_TrueIffMultiple ==
    compatibility # PendingParse =>
        /\ compatibility.kind = "ok"
        /\ compatibility.data.is_compatible <=>
              /\ ck_kpoints.shift = NoShift /\ ck_qpoints.shift = NoShift
              /\ \A i \in 1..3 : IsMultiple(ck_kpoints.mesh[i], ck_qpoints.mesh[i])

-----------------------------------------------------------------------------
(* Properties of EpwBaseWorkChain.                                         *)

Validated == wc_pc \notin {"idle", "setup", "validate_kpoints"}

KpointsUndetermined ==
    /\ "parent_folder_epw" \notin wc_inputs.names
    /\ "kpoints" \notin wc_inputs.names
    /\ "parent_folder_chk" \notin wc_inputs.names \/ ~wc_inputs.mp_grid

QpointsUndetermined ==
    \A name \in {"parent_folder_epw", "qpoints", "parent_folder_ph"} :
        name \notin wc_inputs.names

(* The coarse meshes are there and the k mesh is shifted or not a multiple *)
(* of the q mesh.                                                          *)
MeshesIncompatible ==
    /\ ~KpointsUndetermined /\ ~QpointsUndetermined
    /\ LET k == CoarseKpoints(wc_inputs).data
           q == wc_inputs.qpoints
       IN \/ k.shift # NoShift \/ q.shift # NoShift
          \/ \E i \in 1..3 : ~IsMultiple(k.mesh[i], q.mesh[i])

CoarseGridNotValid == KpointsUndetermined \/ QpointsUndetermined \/ MeshesIncompatible

(* C22 (as claimed): validate_kpoints returns exit code 202 exactly when   *)
(* the coarse k-points or q-points cannot be determined or the two meshes  *)
(* are incompatible, and then no fine grid is set in ctx.inputs and no     *)
(* EpwCalculation is ever submitted.                                       *)
C22_ExitCode202 ==
    Validated =>
        /\ wc_exit = Finished(ERROR_COARSE_GRID_NOT_VALID) <=> CoarseGridNotValid
        /\ CoarseGridNotValid =>
              /\ wc_ctx.kfpoints = "" /\ wc_ctx.qfpoints = ""
              /\ wc_ctx.children = <<>>

Inspected(i) == i <= Len(wc_reports)

(* C23: for a calculation that failed with an exit status below 400 the    *)
(* handler reports (break, exit code 300), the work chain ends with 300    *)
(* and that calculation is the last one submitted; for a calculation that  *)
(* failed with 400 or more or that did not fail the handler reports        *)
(* nothing.                                                                *)
C23_UnrecoverableFailure ==
    Validated =>
        \A i \in 1..Len(wc_ctx.children) :
            Inspected(i) =>
                LET calculation == wc_ctx.children[i]
                IN IF calculation.exit_status # 0 /\ calculation.exit_status < 400
                   THEN /\ wc_reports[i] = [do_break |-> TRUE, exit_code |-> 300]
                        /\ wc_exit = Finished(300)
                        /\ wc_pc = "finished"
                        /\ i = Len(wc_ctx.children)
                   ELSE wc_reports[i] = NoReport

(* A calculation failed with 400 and was restarted, the next one failed    *)
(* with 399 and the work chain ended with 300.                             *)
C23_Witness ==
    /\ wc_pc = "finished"
    /\ wc_exit = Finished(300)
    /\ Len(wc_ctx.children) = 2
    /\ wc_ctx.children[1].exit_status = 400
    /\ wc_ctx.children[2].exit_status = 399
    /\ Len(wc_reports) = 2

-----------------------------------------------------------------------------
(* The two call sites of the isotropic Tc.                                 *)

(* C30 (as claimed): for every table on which _calculate_iso_tc returns a  *)
(* number, 0.0 for a table below 1.0 included, supercon.calculate_tc       *)
(* returns the same value.                                                 *)
C30_CallSitesAgree ==
    (tc_result # Pending /\ tc_node # Pending /\ tc_result.kind = "num")
        => tc_node = tc_result

-----------------------------------------------------------------------------
(* Further properties of SuperConWorkChain.                                *)

SetUp == sc_pc \notin {"idle", "setup"}

Position(label) == {k \in 1..Len(sc_submitted) : sc_submitted[k] = label}

Terminated == sc_pc \in {"finished", "excepted"}

(* C24: the final anisotropic work chain is submitted only after the final *)
(* isotropic one finished ok; a failed isotropic one ends the work chain   *)
(* with 403 and no anisotropic one is submitted; a failed anisotropic one  *)
(* ends it with 404; the four outputs are emitted only if both finished    *)
(* ok.                                                                     *)
C24_IsoBeforeAniso ==
    SetUp =>
        /\ Position("epw_final_aniso") # {} =>
              /\ sc_ctx.final_epw_iso # NoNode /\ sc_ctx.final_epw_iso.ok
              /\ \A a \in Position("epw_final_aniso") :
                    \E i \in Position("epw_final_iso") : i < a
        /\ (sc_ctx.final_epw_iso # NoNode /\ ~sc_ctx.final_epw_iso.ok) =>
              /\ Position("epw_final_aniso") = {}
              /\ sc_pc \in {"inspect_final_epw_iso", "finished"}
              /\ sc_pc = "finished" => sc_exit = Finished(403)
        /\ (sc_ctx.final_epw_aniso # NoNode /\ ~sc_ctx.final_epw_aniso.ok) =>
              /\ sc_pc \in {"inspect_final_epw_aniso", "finished"}
              /\ sc_pc = "finished" => sc_exit = Finished(404)
        /\ sc_outputs # {} =>
              /\ sc_outputs = {"Tc_iso", "parameters", "max_eigenvalue", "a2f"}
              /\ sc_ctx.final_epw_iso # NoNode /\ sc_ctx.final_epw_iso.ok
              /\ sc_ctx.final_epw_aniso # NoNode /\ sc_ctx.final_epw_aniso.ok

(* The isotropic run was fine, the anisotropic one failed: 404, no output. *)
C24_Witness ==
    /\ sc_pc = "finished"
    /\ sc_exit = Finished(404)
    /\ sc_ctx.final_epw_iso.ok
    /\ sc_ctx.final_epw_aniso # NoNode /\ ~sc_ctx.final_epw_aniso.ok
    /\ sc_outputs = {}

(* C25 (as claimed): whenever run_final_epw_iso or run_final_epw_aniso is  *)
(* about to run, ctx.epw_interp holds at least one interpolation work      *)
(* chain that finished ok, for all inputs and all outcomes.                *)
C25_RestartFolderExists ==
    sc_pc \in {"run_final_epw_iso", "run_final_epw_aniso"} =>
        /\ Len(sc_ctx.epw_interp) >= 1
        /\ Last(sc_ctx.epw_interp).ok

(* C26: with a convergence_threshold, is_converged is true only when       *)
(* epw_interp holds at least three work chains that finished ok and the    *)
(* allen_dynes of the last two differ by less than the threshold; with     *)
(* fewer than three it is false.                                           *)
C26_ConvergedNeedsThree ==
    (SetUp /\ sc_inputs.has_convergence_threshold) =>
        LET n == Len(sc_ctx.epw_interp)
            inspected == IF sc_pc = "inspect_conv" THEN n - 1 ELSE n
        IN /\ sc_ctx.is_converged =>
                /\ inspected >= 3
                /\ \A k \in 1..inspected : sc_ctx.epw_interp[k].ok
                /\ Abs(sc_ctx.epw_interp[inspected].allen_dynes
                        - sc_ctx.epw_interp[inspected - 1].allen_dynes)
                      < sc_inputs.convergence_threshold
           /\ inspected < 3 => ~sc_ctx.is_converged

(* Three runs finished ok, the last two agree, and is_converged is set.    *)
C26_Witness ==
    /\ sc_pc = "should_run_final"
    /\ sc_inputs.has_convergence_threshold
    /\ sc_ctx.is_converged
    /\ Len(sc_ctx.epw_interp) = 3
    /\ sc_ctx.epw_interp[2].allen_dynes = sc_ctx.epw_interp[3].allen_dynes
    /\ sc_ctx.epw_interp[1].allen_dynes # sc_ctx.epw_interp[2].allen_dynes

(* The distances of the input in ascending order.                          *)
SortedDistances == SortSeq(sc_inputs.interpolation_distance, LAMBDA a, b : a < b)

(* Every run so far took one distance off the end of the sorted list: the  *)
(* list is what is left of it, never longer, and the runs are as many as   *)
(* the distances taken off.                                                *)
LoopBounded ==
    SetUp =>
        /\ sc_ctx.iteration <= Len(sc_inputs.interpolation_distance)
        /\ sc_ctx.interpolation_list
              = SubSeq(SortedDistances, 1, Len(SortedDistances) - sc_ctx.iteration)
        /\ Cardinality(Position("conv")) = sc_ctx.iteration

(* C27: each iteration of the convergence loop takes one element off       *)
(* ctx.interpolation_list and none is added, so at most                    *)
(* len(interpolation_distance) interpolation work chains are submitted,    *)
(* each distance at most once, and the work chain ends for every outcome   *)
(* of the sub-processes.                                                   *)
C27_LoopTerminates == []LoopBounded /\ <>Terminated

(* All distances were used and the work chain has ended.                   *)
C27_Witness ==
    /\ Terminated
    /\ sc_ctx.iteration = MaxDistances
    /\ sc_ctx.interpolation_list = <<>>
    /\ Cardinality(Position("conv")) = MaxDistances

(* C28: without a convergence_threshold the first should_run_conv sets     *)
(* is_converged and returns false: no interpolation work chain is ever     *)
(* submitted and the next step is the decision about the final runs.       *)
C28_NoThresholdNoLoop ==
    (SetUp /\ ~sc_inputs.has_convergence_threshold) =>
        /\ sc_pc \notin {"run_conv", "inspect_conv"}
        /\ Position("conv") = {}
        /\ sc_ctx.iteration = 0
        /\ sc_pc # "should_run_conv" => sc_ctx.is_converged

C28_Witness ==
    /\ sc_pc = "should_run_final"
    /\ ~sc_inputs.has_convergence_threshold
    /\ sc_ctx.is_converged
    /\ sc_submitted = <<>>
    /\ Len(sc_inputs.interpolation_distance) = MaxDistances

(* C29: a failed interpolation work chain is taken out of epw_interp by    *)
(* inspect_conv and the work chain goes on: whenever should_run_conv,      *)
(* should_run_final or a step of the final runs is next, epw_interp holds  *)
(* only work chains that finished ok, in the order of their submission,    *)
(* and a failure alone has not ended the work chain.                       *)
C29_OnlyFinishedOk ==
    sc_pc \in {"should_run_conv", "should_run_final", "run_final_epw_iso",
               "inspect_final_epw_iso", "run_final_epw_aniso",
               "inspect_final_epw_aniso"} =>
        /\ \A k \in 1..Len(sc_ctx.epw_interp) : sc_ctx.epw_interp[k].ok
        /\ \A j, k \in 1..Len(sc_ctx.epw_interp) :
              j < k => sc_ctx.epw_interp[j].pk < sc_ctx.epw_interp[k].pk
        /\ sc_exit = Running

(* The first run failed and was dropped, the second one was submitted and  *)
(* finished ok.                                                            *)
C29_Witness ==
    /\ sc_pc = "should_run_conv"
    /\ sc_ctx.iteration = 2
    /\ Len(sc_ctx.epw_interp) = 1
    /\ sc_ctx.epw_interp[1].pk = 2
    /\ sc_ctx.epw_interp[1].ok

====
